---- MODULE Spec2Model ----
(***************************************************************************)
(* Model of the text core of the Ollama chat client (src/src/App.jsx):     *)
(* the SEARCH/REPLACE patch engine (applySearchReplace) and the response   *)
(* parser (parseLLMResponse, parseSearchReplace, validateAndSanitizePath). *)
(*                                                                         *)
(* A JavaScript string is a sequence of one-character strings.  A missing  *)
(* (undefined / null) argument is the value Missing, which is not a string *)
(* over any alphabet of the model.                                         *)
(***************************************************************************)
EXTENDS Integers, Sequences, FiniteSets, TLC

VARIABLES
    originalContent,  \* applySearchReplace: first argument
    operations,       \* applySearchReplace: second argument
    pc,               \* position in the call: "call", "loop", "done"
    i,                \* loop index of the for loop over sortedOperations
    result,           \* working text
    appliedCount,     \* number of operations applied so far
    failedOps,        \* failure entries pushed so far
    stage,            \* branch taken by the last iteration of the loop
    threw,            \* TRUE when the call ended in an exception
    message,          \* parseLLMResponse: the argument
    doc,              \* the blocks and prose the message was written from
    ppc,              \* position in parseLLMResponse
    regularContent,   \* the running buffer of text not yet extracted
    artifacts,        \* the artifacts extracted so far, then those returned
    edits,            \* the edit groups extracted so far, then those returned
    content,          \* the prose returned
    idFails,          \* generateSafeId throws in this call: the host has no
                      \* performance.now
    caught,           \* TRUE when the call ended in the catch block
    rawPath,          \* validateAndSanitizePath: the argument
    cleanPath,        \* validateAndSanitizePath: the value returned
    spc,              \* position in validateAndSanitizePath
    targetArtifacts,  \* findTargetFileForEdit: the paths of the first argument
    editPath,         \* findTargetFileForEdit: the second argument
    target,           \* index of the artifact returned, 0 for null
    fpc,              \* position in findTargetFileForEdit
    dedupInput,       \* deduplicateArtifacts: the argument
    dedupOutput,      \* deduplicateArtifacts: the value returned
    dpc,              \* position in deduplicateArtifacts
    currentArtifacts, \* the artifacts of the current conversation
    clock,            \* Date.now()
    messages,         \* the messages of the current conversation
    isLoading,        \* TRUE from the send to the end of the response
    abortControllerRef, \* abortControllerRef.current: "controller" or "null"
    viewingEdit,      \* the edit group open in the diff viewer, or NoEdit
    sendPos,          \* position of the running sendMessage call
    messagesWithNew,  \* sendMessage: the message list it built at the send
    capturedArtifacts, \* sendMessage: currentArtifacts as its closure holds it
    reader,           \* the chunks of the response body not yet read
    fullContent,      \* sendMessage: the text accumulated so far
    signalAborted,    \* controller.signal.aborted
    response,         \* the blocks and prose the server answers with
    parseLog,         \* the calls of parseLLMResponse made by sendMessage
    sentArtifacts     \* the artifacts of the conversation at the last send

patchVars == <<originalContent, operations, pc, i, result, appliedCount,
               failedOps, stage, threw>>

parseVars == <<message, doc, ppc, regularContent, artifacts, edits, content,
               idFails, caught>>

sanitizeVars == <<rawPath, cleanPath, spc>>

targetVars == <<targetArtifacts, editPath, target, fpc>>

dedupVars == <<dedupInput, dedupOutput, dpc>>

projectVars == <<currentArtifacts, clock>>

chatVars == <<messages, isLoading, abortControllerRef, viewingEdit, sendPos,
              messagesWithNew, capturedArtifacts, reader, fullContent,
              signalAborted, response, parseLog, sentArtifacts>>

reconcilerVars ==
    <<sanitizeVars, targetVars, dedupVars, projectVars, chatVars>>

vars == <<patchVars, parseVars, reconcilerVars>>

(***************************************************************************)
(* Bounds of the model                                                     *)
(***************************************************************************)
MaxTextLen == 3
MaxSearchLen == 2
MaxReplaceLen == 1
LongExtra == 1

(***************************************************************************)
(* Strings                                                                 *)
(***************************************************************************)
NL == "\n"
SP == " "
Letters == {"a", "b"}
Alphabet == Letters \cup {SP, NL}
Whitespace == {SP, NL}

Missing == <<"undefined">>
MissingOps == <<[search |-> Missing, replace |-> Missing]>>

Str(alphabet, n) == UNION {[1..k -> alphabet] : k \in 0..n}

Min(a, b) == IF a < b THEN a ELSE b

\* s.substring(from, to) with 0-based from (inclusive) and to (exclusive)
Substring(s, from, to) == SubSeq(s, from + 1, to)

\* s occurs in t at 0-based position k
OccursAt(t, s, k) ==
    /\ k >= 0
    /\ k + Len(s) <= Len(t)
    /\ Substring(t, k, k + Len(s)) = s

Occurrences(t, s) == {k \in 0..Len(t) : OccursAt(t, s, k)}

\* String.prototype.lastIndexOf: scan from the right, -1 when absent
RECURSIVE LastIndexFrom(_, _, _)
LastIndexFrom(t, s, k) ==
    IF k < 0 THEN -1
    ELSE IF OccursAt(t, s, k) THEN k
    ELSE LastIndexFrom(t, s, k - 1)

\* variant: String.prototype.indexOf, the leftmost occurrence
IndexOfFirst(t, s) ==
    IF Occurrences(t, s) = {} THEN -1
    ELSE CHOOSE k \in Occurrences(t, s) : \A m \in Occurrences(t, s) : k <= m

LastIndexOf(t, s) == LastIndexFrom(t, s, Len(t) - Len(s))

\* String.prototype.split('\n')
RECURSIVE SplitFrom(_, _, _)
SplitFrom(s, k, cur) ==
    IF k > Len(s) THEN <<cur>>
    ELSE IF s[k] = NL THEN <<cur>> \o SplitFrom(s, k + 1, <<>>)
    ELSE SplitFrom(s, k + 1, Append(cur, s[k]))

SplitLines(s) == SplitFrom(s, 1, <<>>)

\* Array.prototype.join('\n')
RECURSIVE JoinLines(_)
JoinLines(lines) ==
    IF Len(lines) = 0 THEN <<>>
    ELSE IF Len(lines) = 1 THEN lines[1]
    ELSE lines[1] \o <<NL>> \o JoinLines(Tail(lines))

RECURSIVE TrimStart(_)
TrimStart(s) ==
    IF Len(s) > 0 /\ s[1] \in Whitespace THEN TrimStart(Tail(s)) ELSE s

RECURSIVE TrimEnd(_)
TrimEnd(s) ==
    IF Len(s) > 0 /\ s[Len(s)] \in Whitespace
    THEN TrimEnd(SubSeq(s, 1, Len(s) - 1)) ELSE s

\* String.prototype.trim
Trim(s) == TrimEnd(TrimStart(s))

\* Array.prototype.slice(from, to), 0-based, to exclusive
Slice(xs, from, to) == SubSeq(xs, from + 1, Min(to, Len(xs)))

(***************************************************************************)
(* applySearchReplace                                                      *)
(***************************************************************************)
MaxOperations == 20
MaxPreview == 100

\* !originalContent: a missing or an empty string
Falsy(x) == x = Missing \/ x = <<>>

\* variant: the guard without its !operations test
EarlyReturnCondNoOps(original, ops) ==
    Falsy(original) \/ (ops # MissingOps /\ Len(ops) = 0)

\* the guard of the early return
EarlyReturnCond(original, ops) ==
    Falsy(original) \/ ops = MissingOps \/ Len(ops) = 0

\* variants: operations.slice(-20), and no cap at all
limitedOperationsLast(ops) ==
    SubSeq(ops, Len(ops) - Min(Len(ops), MaxOperations) + 1, Len(ops))

limitedOperationsAll(ops) == ops

limitedOperations(ops) == Slice(ops, 0, MaxOperations)

\* the trimmed content of each line of the search text
normalizeForComparison(str) ==
    [k \in 1..Len(SplitLines(str)) |-> Trim(SplitLines(str)[k])]

\* the inner loop over j and the test that follows it
FuzzyMatchAt(resultLines, searchLines, startIdx) ==
    \A j \in 0..(Len(searchLines) - 1) :
        /\ startIdx + j < Len(resultLines)
        /\ Trim(resultLines[startIdx + j + 1]) = searchLines[j + 1]

RECURSIVE FuzzyScanUp(_, _, _)
FuzzyScanUp(resultLines, searchLines, startIdx) ==
    IF startIdx >= Len(resultLines) THEN -1
    ELSE IF FuzzyMatchAt(resultLines, searchLines, startIdx) THEN startIdx
    ELSE FuzzyScanUp(resultLines, searchLines, startIdx + 1)

\* the outer loop: startIdx from the last line down to 0
RECURSIVE FuzzyScan(_, _, _)
FuzzyScan(resultLines, searchLines, startIdx) ==
    IF startIdx < 0 THEN -1
    ELSE IF FuzzyMatchAt(resultLines, searchLines, startIdx) THEN startIdx
    ELSE FuzzyScan(resultLines, searchLines, startIdx - 1)

\* variant: the first matching run from the top of the file
FuzzyStartFirst(res, search) ==
    FuzzyScanUp(SplitLines(res), normalizeForComparison(search), 0)

\* start line of the fuzzy match, -1 when there is none
FuzzyStart(res, search) ==
    FuzzyScan(SplitLines(res), normalizeForComparison(search),
              Len(SplitLines(res)) - 1)

\* variant: the tail taken after replace.length instead of search.length
ExactSpliceByReplace(res, search, replace, lastIndex) ==
    Substring(res, 0, lastIndex) \o replace
        \o Substring(res, lastIndex + Len(replace), Len(res))

\* the text after an exact match at lastIndex has been replaced
ExactSplice(res, search, replace, lastIndex) ==
    Substring(res, 0, lastIndex) \o replace
        \o Substring(res, lastIndex + Len(search), Len(res))

\* the text after the fuzzy match starting at line startIdx has been replaced
FuzzySplice(res, search, replace, startIdx) ==
    LET resultLines == SplitLines(res)
        searchLines == normalizeForComparison(search)
        beforeMatch == JoinLines(Slice(resultLines, 0, startIdx))
        afterMatch == JoinLines(Slice(resultLines, startIdx + Len(searchLines),
                                      Len(resultLines)))
    IN  beforeMatch \o (IF beforeMatch # <<>> THEN <<NL>> ELSE <<>>)
            \o replace
            \o (IF afterMatch # <<>> THEN <<NL>> ELSE <<>>) \o afterMatch

\* the preview of the search text kept in a failure entry
Preview(search) ==
    Substring(search, 0, Min(Len(search), MaxPreview))
        \o (IF Len(search) > MaxPreview THEN <<".", ".", ".">> ELSE <<>>)

FailureEntry(op, originalIndex) ==
    [index |-> originalIndex + 1, search |-> Preview(op.search)]

\* variant: a failed operation discards the working text
ApplyOpWipe(res, op) ==
    LET lastIndex == LastIndexOf(res, op.search)
        startIdx == FuzzyStart(res, op.search)
    IN  IF lastIndex # -1
        THEN [result |-> ExactSplice(res, op.search, op.replace, lastIndex),
              stage |-> "exact"]
        ELSE IF startIdx # -1
        THEN [result |-> FuzzySplice(res, op.search, op.replace, startIdx),
              stage |-> "fuzzy"]
        ELSE [result |-> <<>>, stage |-> "failed"]

\* one iteration of the loop: the new text, the branch taken
ApplyOp(res, op) ==
    LET lastIndex == LastIndexOf(res, op.search)
        startIdx == FuzzyStart(res, op.search)
    IN  IF lastIndex # -1
        THEN [result |-> ExactSplice(res, op.search, op.replace, lastIndex),
              stage |-> "exact"]
        ELSE IF startIdx # -1
        THEN [result |-> FuzzySplice(res, op.search, op.replace, startIdx),
              stage |-> "fuzzy"]
        ELSE [result |-> res, stage |-> "failed"]

\* the whole loop, from index k down to 0
RECURSIVE RunLoop(_, _, _, _, _)
RunLoop(ops, k, res, applied, failed) ==
    IF k < 0 THEN [result |-> res, appliedCount |-> applied, failedOps |-> failed]
    ELSE LET r == ApplyOp(res, ops[k + 1])
         IN  RunLoop(ops, k - 1, r.result,
                     IF r.stage = "failed" THEN applied ELSE applied + 1,
                     IF r.stage = "failed"
                     THEN Append(failed, FailureEntry(ops[k + 1], k))
                     ELSE failed)

\* the value returned by applySearchReplace(original, ops)
applySearchReplace(original, ops) ==
    IF EarlyReturnCond(original, ops)
    THEN [result |-> original, appliedCount |-> 0, failedOps |-> <<>>]
    ELSE RunLoop(limitedOperations(ops), Len(limitedOperations(ops)) - 1,
                 original, 0, <<>>)

(***************************************************************************)
(* Inputs of applySearchReplace                                            *)
(***************************************************************************)
Op(s, r) == [search |-> s, replace |-> r]

\* operations over the whole alphabet; the replace text is made of letters
LineOps ==
    {Op(s, r) : s \in Str(Alphabet, MaxSearchLen), r \in Str(Letters, MaxReplaceLen)}

LetterOps ==
    {Op(s, r) : s \in Str(Letters, MaxSearchLen), r \in Str(Letters, 1)}

ShortOps == {Op(s, r) : s \in Str(Letters, 1), r \in Str(Letters, 1)}

Repeat(op, n) == [k \in 1..n |-> op]

\* a call with at most one operation, over the whole alphabet
SingleInputs ==
    {<<t, ops>> : t \in Str(Alphabet, MaxTextLen) \cup {Missing},
                  ops \in {<<>>, MissingOps} \cup {<<o>> : o \in LineOps}}

\* a call with two operations, over the letters
PairInputs ==
    {<<t, <<o1, o2>> >> : t \in Str(Letters, MaxTextLen),
                          o1 \in LetterOps, o2 \in LetterOps}

\* a call with two operations on a text of lines
LinePairInputs ==
    {<<t, <<o1, o2>> >> : t \in Str({"a", SP, NL}, MaxTextLen),
                          o1 \in {Op(<<"a", SP>>, <<"a">>), Op(<<"b">>, <<>>)},
                          o2 \in {Op(<<SP, "a">>, <<"b">>), Op(<<NL, "b">>, <<"a">>)}}

\* a call with about MaxOperations operations: one operation, then copies
\* of another
LongInputs ==
    {<<t, <<o1>> \o Repeat(o2, n - 1)>> :
        t \in Str(Letters, 2) \ {<<>>},
        o1 \in ShortOps, o2 \in ShortOps,
        n \in (MaxOperations - 1)..(MaxOperations + LongExtra)}

PatchInputs == SingleInputs \cup PairInputs \cup LinePairInputs \cup LongInputs

(***************************************************************************)
(* The call as a state machine                                             *)
(***************************************************************************)
\* no call of parseLLMResponse is under way
ParseIdle ==
    /\ message = <<>>
    /\ doc = <<>>
    /\ ppc = "idle"
    /\ regularContent = <<>>
    /\ artifacts = <<>>
    /\ edits = <<>>
    /\ content = <<>>
    /\ idFails = FALSE
    /\ caught = FALSE

\* no call of validateAndSanitizePath is under way
SanitizeIdle ==
    /\ rawPath = <<>>
    /\ cleanPath = <<>>
    /\ spc = "idle"

\* no call of findTargetFileForEdit is under way
TargetIdle ==
    /\ targetArtifacts = <<>>
    /\ editPath = <<>>
    /\ target = 0
    /\ fpc = "idle"

\* no call of deduplicateArtifacts is under way
DedupIdle ==
    /\ dedupInput = <<>>
    /\ dedupOutput = <<>>
    /\ dpc = "idle"

\* a conversation without artifacts
ProjectIdle ==
    /\ currentArtifacts = <<>>
    /\ clock = 0

\* setViewingEdit(null)
NoEdit == <<>>

\* no message was sent yet
ChatIdle ==
    /\ messages = <<>>
    /\ isLoading = FALSE
    /\ abortControllerRef = "null"
    /\ viewingEdit = NoEdit
    /\ sendPos = "idle"
    /\ messagesWithNew = <<>>
    /\ capturedArtifacts = <<>>
    /\ reader = <<>>
    /\ fullContent = <<>>
    /\ signalAborted = FALSE
    /\ response = <<>>
    /\ parseLog = <<>>
    /\ sentArtifacts = <<>>

ReconcilerIdle ==
    SanitizeIdle /\ TargetIdle /\ DedupIdle /\ ProjectIdle /\ ChatIdle

Init ==
    /\ \E in \in PatchInputs :
          /\ originalContent = in[1]
          /\ operations = in[2]
    /\ pc = "call"
    /\ i = -1
    /\ result = Missing
    /\ appliedCount = 0
    /\ failedOps = <<>>
    /\ stage = "none"
    /\ threw = FALSE
    /\ ParseIdle
    /\ ReconcilerIdle

\* if (!originalContent || !operations || operations.length === 0) return ...
EarlyReturn ==
    /\ pc = "call"
    /\ EarlyReturnCond(originalContent, operations)
    /\ result' = originalContent
    /\ appliedCount' = 0
    /\ failedOps' = <<>>
    /\ pc' = "done"
    /\ UNCHANGED <<originalContent, operations, i, stage, threw>>
    /\ UNCHANGED <<parseVars, reconcilerVars>>

\* the declarations up to the head of the for loop; reading .length or
\* calling .slice / .lastIndexOf on a missing value raises a TypeError
EnterLoop ==
    /\ pc = "call"
    /\ ~EarlyReturnCond(originalContent, operations)
    /\ IF originalContent = Missing \/ operations = MissingOps
       THEN /\ threw' = TRUE
            /\ pc' = "done"
            /\ UNCHANGED <<i, result, appliedCount, failedOps>>
       ELSE /\ result' = originalContent
            /\ appliedCount' = 0
            /\ failedOps' = <<>>
            /\ i' = Len(limitedOperations(operations)) - 1
            /\ pc' = "loop"
            /\ UNCHANGED threw
    /\ UNCHANGED <<originalContent, operations, stage>>
    /\ UNCHANGED <<parseVars, reconcilerVars>>

\* one iteration of the for loop
LoopStep ==
    /\ pc = "loop"
    /\ i >= 0
    /\ LET op == limitedOperations(operations)[i + 1]
           r == ApplyOp(result, op)
       IN  /\ result' = r.result
           /\ stage' = r.stage
           /\ appliedCount' = IF r.stage = "failed" THEN appliedCount
                              ELSE appliedCount + 1
           /\ failedOps' = IF r.stage = "failed"
                           THEN Append(failedOps, FailureEntry(op, i))
                           ELSE failedOps
    /\ i' = i - 1
    /\ UNCHANGED <<originalContent, operations, pc, threw>>
    /\ UNCHANGED <<parseVars, reconcilerVars>>

\* return { result, appliedCount, failedOps }
Return ==
    /\ pc = "loop"
    /\ i < 0
    /\ pc' = "done"
    /\ UNCHANGED <<originalContent, operations, i, result, appliedCount,
                   failedOps, stage, threw>>
    /\ UNCHANGED <<parseVars, reconcilerVars>>

Next == EarlyReturn \/ EnterLoop \/ LoopStep \/ Return

Spec == Init /\ [][Next]_vars

(***************************************************************************)
(* Message text for the parser.  A message is a sequence of tokens: a      *)
(* punctuation character, a whitespace character, a marker, or a word of   *)
(* letters and digits.  FENCE stands for the three backticks of a code     *)
(* fence and LONG for a run of 50,000 letters of prose.                    *)
(***************************************************************************)
FENCE == "FENCE"
LONG == "LONG"
LONGCUT == "LONGCUT"
SEARCH == "<<<<<<< SEARCH"
SEP == "======="
REPLACE == ">>>>>>> REPLACE"
AT3 == "@@@"
BACKSLASH == "\\"

Punctuation ==
    {FENCE, SP, NL, SEARCH, SEP, REPLACE, AT3, BACKSLASH, "/", ".", ":", "#",
     "(", ")", "{", "}", "=", "*", "<", ">", "|", "?", "-", ";", "\""}

\* \w+ : every other token is a word
IsWord(t) == t \notin Punctuation

IsWs(t) == t \in Whitespace

\* the number of characters of a token
Width(t) ==
    IF t = FENCE THEN 3
    ELSE IF t = LONG THEN 50000
    ELSE IF t = LONGCUT THEN 49999
    ELSE Len(t)

RECURSIVE CharLenRange(_, _, _)
CharLenRange(s, a, b) ==
    IF a > b THEN 0
    ELSE IF a = b THEN Width(s[a])
    ELSE CharLenRange(s, a, (a + b) \div 2)
             + CharLenRange(s, (a + b) \div 2 + 1, b)

CharLen(s) == CharLenRange(s, 1, Len(s))

\* toLowerCase / the i flag, on the words the patterns name
Lower(t) ==
    CASE t \in {"File", "FILE"} -> "file"
      [] t \in {"Filename", "FILENAME"} -> "filename"
      [] t \in {"Edit", "EDIT"} -> "edit"
      [] OTHER -> t

Drop(s, n) == SubSeq(s, n + 1, Len(s))

\* the index of the first token of s at or after from that satisfies Test
FirstIndex(s, from, Test(_)) ==
    IF \E k \in from..Len(s) : Test(s[k])
    THEN CHOOSE k \in from..Len(s) :
            Test(s[k]) /\ \A m \in from..(k - 1) : ~Test(s[m])
    ELSE Len(s) + 1

NotWs(t) == ~IsWs(t)
IsNL(t) == t = NL
IsFence(t) == t = FENCE
NotWord(t) == ~IsWord(t)

\* the least and the greatest element of a non-empty set of indices
Least(S) == CHOOSE k \in S : \A o \in S : k <= o
Greatest(S) == CHOOSE k \in S : \A o \in S : o <= k

\* the index after the longest run of whitespace starting at from
WsEnd(s, from) == FirstIndex(s, from, NotWs)

\* the index of the end of the line that holds position from
LineEnd(s, from) == FirstIndex(s, from, IsNL)

\* the newlines of the whitespace run starting at from: the places where
\* the \n of a greedy \s*\n can match
RunNewlines(s, from) == {k \in from..(WsEnd(s, from) - 1) : s[k] = NL}

\* s with the tokens from..to removed
Remove(s, from, to) == SubSeq(s, 1, from - 1) \o SubSeq(s, to + 1, Len(s))

(***************************************************************************)
(* validateAndSanitizePath, getLanguageFromPath                            *)
(***************************************************************************)
UnknownTxt == <<"unknown", ".", "txt">>
Unknown == <<"unknown">>

\* replace(/\.\./g, '')
RECURSIVE StripDotDot(_)
StripDotDot(s) ==
    IF Len(s) < 2 THEN s
    ELSE IF s[1] = "." /\ s[2] = "." THEN StripDotDot(Drop(s, 2))
    ELSE <<s[1]>> \o StripDotDot(Tail(s))

\* replace(/\\/g, '/')
Slashes(s) == [k \in 1..Len(s) |-> IF s[k] = BACKSLASH THEN "/" ELSE s[k]]

\* what replace(/[<>:"|?*]/g, '') leaves of one token
StripToken(t) ==
    CASE t \in {"<", ">", ":", "\"", "|", "?", "*"} -> <<>>
      [] t = SEARCH -> <<SP, "SEARCH">>
      [] t = REPLACE -> <<SP, "REPLACE">>
      [] OTHER -> <<t>>

RECURSIVE StripChars(_)
StripChars(s) ==
    IF s = <<>> THEN <<>> ELSE StripToken(s[1]) \o StripChars(Tail(s))

validateAndSanitizePath(path) ==
    LET WithExtension(sanitized) ==
            IF (\A k \in 1..Len(sanitized) : sanitized[k] # ".")
               /\ (sanitized = <<>> \/ sanitized[Len(sanitized)] # "/")
            THEN sanitized \o <<".", "txt">>
            ELSE sanitized
    IN  IF path = Missing \/ path = <<>> THEN UnknownTxt
        ELSE WithExtension(StripChars(Trim(Slashes(StripDotDot(path)))))

\* the entries of languageMap for the extensions of the model
languageMap(ext) ==
    CASE ext = <<"js">> -> "javascript"
      [] ext = <<"py">> -> "python"
      [] ext = <<"md">> -> "markdown"
      [] ext = <<"txt">> -> "text"
      [] OTHER -> "text"

\* safePath.split('.').pop()
LastSegment(s) ==
    IF \E k \in 1..Len(s) : s[k] = "."
    THEN Drop(s, CHOOSE k \in 1..Len(s) :
                    s[k] = "." /\ \A m \in (k + 1)..Len(s) : s[m] # ".")
    ELSE s

getLanguageFromPath(path) ==
    languageMap(LastSegment(validateAndSanitizePath(path)))

(***************************************************************************)
(* parseSearchReplace                                                      *)
(***************************************************************************)
MaxOpsPerBlock == 10
MinEditLength == 20

\* the first j >= from with a newline at j and the marker at j + 1; 0 if none
FirstPair(s, from, mark) ==
    IF \E j \in from..(Len(s) - 1) : s[j] = NL /\ s[j + 1] = mark
    THEN CHOOSE j \in from..(Len(s) - 1) :
            /\ s[j] = NL /\ s[j + 1] = mark
            /\ \A m \in from..(j - 1) : ~(s[m] = NL /\ s[m + 1] = mark)
    ELSE 0

\* =======\s*\n([\s\S]*?)\n>>>>>>> REPLACE with the ======= at sepIdx: the
\* newline of \s*\n is the last one of the whitespace run that leaves a
\* closing marker to find
ReplaceStarts(s, sepIdx) ==
    {e \in RunNewlines(s, sepIdx + 1) : FirstPair(s, e + 1, REPLACE) # 0}

\* the places where ([\s\S]*?)\n======= can end the search text that
\* starts after the newline at e1: the lazy group takes the first
SearchEnds(s, e1) ==
    {j \in (e1 + 1)..(Len(s) - 1) :
        /\ s[j] = NL /\ s[j + 1] = SEP
        /\ ReplaceStarts(s, j + 1) # {}}

\* the first operation whose <<<<<<< SEARCH is at p, if the pattern matches
MatchOperation(s, p) ==
    LET Closed(e1, j1, e2, j2) ==
            [found |-> TRUE,
             search |-> SubSeq(s, e1 + 1, j1 - 1),
             replace |-> SubSeq(s, e2 + 1, j2 - 1),
             end |-> j2 + 1]
        ReplaceFrom(e1, j1, e2) == Closed(e1, j1, e2, FirstPair(s, e2 + 1, REPLACE))
        Separated(e1, j1) == ReplaceFrom(e1, j1, Greatest(ReplaceStarts(s, j1 + 1)))
        SearchFrom(e1) == Separated(e1, Least(SearchEnds(s, e1)))
        Opened(starts) ==
            IF s[p] # SEARCH \/ starts = {} THEN [found |-> FALSE]
            ELSE SearchFrom(Greatest(starts))
    IN  Opened({e \in RunNewlines(s, p + 1) : SearchEnds(s, e) # {}})

\* the exec loop: at most 10 operations, left to right
RECURSIVE ScanOperations(_, _, _)
ScanOperations(s, from, count) ==
    LET Rest(m) ==
            <<[search |-> m.search, replace |-> m.replace]>>
                \o ScanOperations(s, m.end + 1, count + 1)
        First(hits) ==
            IF hits = {} \/ count >= MaxOpsPerBlock THEN <<>>
            ELSE Rest(MatchOperation(s, Least(hits)))
    IN  First({p \in from..Len(s) : MatchOperation(s, p).found})

parseSearchReplace(text) ==
    IF text = <<>> \/ CharLen(text) < MinEditLength THEN <<>>
    ELSE ScanOperations(text, 1, 0)

(***************************************************************************)
(* parseLLMResponse: edit blocks                                           *)
(***************************************************************************)
MaxEditBlocks == 5
maxMessageSize == 50000

TruncationMark ==
    <<NL, ".", ".", ".", SP, "(", "truncated", SP, "for", SP, "performance", ")">>

\* message.substring(0, maxMessageSize): whole tokens, and the head of a
\* LONG run that the cut falls in
RECURSIVE CutAt(_, _)
CutAt(s, n) ==
    IF s = <<>> \/ n <= 0 THEN <<>>
    ELSE IF Width(s[1]) <= n THEN <<s[1]>> \o CutAt(Tail(s), n - Width(s[1]))
    ELSE IF s[1] = LONG THEN <<LONGCUT>>
    ELSE <<>>

limitedMessage(msg) ==
    IF CharLen(msg) > maxMessageSize
    THEN CutAt(msg, maxMessageSize) \o TruncationMark
    ELSE msg

\* FENCE(?:edit)?\s*\r?\n([\s\S]*?)FENCE at position p
MatchEditBlock(s, p) ==
    LET Closed(e, f) ==
            IF f > Len(s) THEN [found |-> FALSE]
            ELSE [found |-> TRUE, start |-> p, end |-> f,
                  content |-> SubSeq(s, e + 1, f - 1),
                  fullMatch |-> SubSeq(s, p, f)]
        ContentFrom(e) == Closed(e, FirstIndex(s, e + 1, IsFence))
        Opened(nls) ==
            IF s[p] # FENCE \/ nls = {} THEN [found |-> FALSE]
            ELSE ContentFrom(Greatest(nls))
    IN  Opened(RunNewlines(s, IF p + 1 <= Len(s) /\ Lower(s[p + 1]) = "edit"
                              THEN p + 2 ELSE p + 1))

\* the exec loop over limitedMessage: at most 5 blocks
RECURSIVE ScanEditBlocks(_, _, _)
ScanEditBlocks(s, from, count) ==
    LET Rest(m) == <<m>> \o ScanEditBlocks(s, m.end + 1, count + 1)
        First(hits) ==
            IF hits = {} \/ count >= MaxEditBlocks THEN <<>>
            ELSE Rest(MatchEditBlock(s, Least(hits)))
    IN  First({p \in from..Len(s) : MatchEditBlock(s, p).found})

\* the length of the file marker at position p, 0 if there is none:
\* @@@ | /// | # | File: | file: | filename: , ignoring case
MarkerLen(s, p) ==
    IF s[p] = AT3 \/ s[p] = "#" THEN 1
    ELSE IF p + 2 <= Len(s) /\ s[p] = "/" /\ s[p + 1] = "/" /\ s[p + 2] = "/"
    THEN 3
    ELSE IF p + 1 <= Len(s) /\ Lower(s[p]) \in {"file", "filename"}
            /\ s[p + 1] = ":"
    THEN 2
    ELSE 0

\* marker\s*(.+) at position p: the path is the rest of the line after the
\* whitespace; when only whitespace follows the marker it is one blank
MatchMarker(s, p) ==
    LET Blank(blanks) ==
            IF blanks = {} THEN [found |-> FALSE]
            ELSE [found |-> TRUE, start |-> p,
                  end |-> Greatest(blanks),
                  path |-> <<SP>>]
        PathFrom(n, q) ==
            IF n = 0 THEN [found |-> FALSE]
            ELSE IF q <= Len(s)
            THEN [found |-> TRUE, start |-> p, end |-> LineEnd(s, q) - 1,
                  path |-> SubSeq(s, q, LineEnd(s, q) - 1)]
            ELSE Blank({k \in (p + n)..(q - 1) : s[k] = SP})
        After(n) == PathFrom(n, WsEnd(s, p + n))
    IN  After(MarkerLen(s, p))

\* block.content.match(...): the leftmost match
fileMarkerMatch(text) ==
    LET First(hits) ==
            IF hits = {} THEN [found |-> FALSE]
            ELSE MatchMarker(text, Least(hits))
    IN  First({p \in 1..Len(text) : MatchMarker(text, p).found})

\* the first occurrence of the token string sub in s, 0 if none
FirstOccurrence(s, sub) ==
    LET First(hits) == IF hits = {} THEN 0 ELSE 1 + Least(hits)
    IN  First(Occurrences(s, sub))

\* s.replace(sub, ''): the first occurrence of sub removed
RemoveFirst(s, sub) ==
    LET Without(at) == IF at = 0 THEN s ELSE Remove(s, at, at + Len(sub) - 1)
    IN  Without(FirstOccurrence(s, sub))

\* the target file and the operations of one block.  When the marker pattern
\* finds nothing in block.content, the per-line search of the else branch
\* uses the same pattern, which cannot span lines, and finds nothing either.
BlockEdit(block) ==
    LET Edit(targetFile, editContent) ==
            [path |-> IF targetFile = <<>> THEN Unknown ELSE targetFile,
             operations |-> parseSearchReplace(editContent),
             rawContent |-> block.fullMatch]
        Marked(fm) ==
            IF fm.found
            THEN Edit(validateAndSanitizePath(Trim(fm.path)),
                      Trim(RemoveFirst(block.content,
                                       SubSeq(block.content, fm.start, fm.end))))
            ELSE Edit(<<>>, block.content)
    IN  Marked(fileMarkerMatch(block.content))

\* a lookup that never finds the group
GroupIndexNone(groups, path) == 0

\* the index of the group of editsByFile with this path, 0 if none
GroupIndex(groups, path) ==
    IF \E k \in 1..Len(groups) : groups[k].path = path
    THEN CHOOSE k \in 1..Len(groups) : groups[k].path = path
    ELSE 0

\* the for loop over editBlocks: st holds regularContent and editsByFile
RECURSIVE ConsolidateEdits(_, _)
ConsolidateEdits(blocks, st) ==
    LET Merged(e, k) ==
            IF e.operations = <<>> THEN st
            ELSE [regularContent |->
                      RemoveFirst(st.regularContent, e.rawContent),
                  edits |->
                      IF k # 0
                      THEN [st.edits EXCEPT
                              ![k].operations = @ \o e.operations,
                              ![k].operationCount = @ + Len(e.operations)]
                      ELSE Append(st.edits,
                              [path |-> e.path,
                               operations |-> e.operations,
                               rawContent |-> e.rawContent,
                               applied |-> FALSE,
                               operationCount |-> Len(e.operations)])]
        Grouped(e) == Merged(e, GroupIndex(st.edits, e.path))
    IN  IF blocks = <<>> THEN st
        ELSE ConsolidateEdits(Tail(blocks), Grouped(BlockEdit(blocks[1])))

(***************************************************************************)
(* parseLLMResponse: file blocks                                           *)
(***************************************************************************)
MaxArtifacts == 10
MaxInlineArtifacts == 5

TextLanguage == <<"text">>

IsNameToken(t) == IsWord(t) \/ t \in {"/", ".", "-"}
NotNameToken(t) == ~IsNameToken(t)

\* FENCE(\w+)?\s*\r?\n\s* : the language word and the index after the
\* whitespace, which must hold a newline
BlockOpening(s, p) ==
    LET q == FirstIndex(s, p + 1, NotWord)
    IN  [ok |-> s[p] = FENCE /\ RunNewlines(s, q) # {},
         language |-> IF q = p + 1 THEN TextLanguage ELSE SubSeq(s, p + 1, q - 1),
         next |-> WsEnd(s, q)]

\* (?:filename|file): at position t, ignoring case
IsFileWord(s, t) ==
    /\ t + 1 <= Len(s)
    /\ Lower(s[t]) \in {"filename", "file"}
    /\ s[t + 1] = ":"

\* \s*([^\r\n]+)\r?\n after the colon, from index u: the places where the
\* path can start; the greedy \s* takes the last of them
PathStarts(s, u) ==
    {k \in u..WsEnd(s, u) : k <= Len(s) /\ s[k] # NL /\ LineEnd(s, k) <= Len(s)
                            /\ FirstIndex(s, LineEnd(s, k) + 1, IsFence) <= Len(s)}

\* the match of file pattern 1 at p:  // filename: path  or  # file: path
MatchCommentFile(s, p) ==
    LET PathAt(o, k) ==
            LET z == LineEnd(s, k)
                f == FirstIndex(s, z + 1, IsFence)
            IN  [found |-> TRUE, start |-> p, end |-> f,
                 language |-> o.language,
                 rawFilePath |-> Trim(SubSeq(s, k, z - 1)),
                 content |-> Trim(SubSeq(s, z + 1, f - 1))]
        WordAt(o, t) ==
            LET starts == PathStarts(s, t + 2)
            IN  IF t = 0 THEN [found |-> FALSE]
                ELSE IF ~IsFileWord(s, t) \/ starts = {} THEN [found |-> FALSE]
                ELSE PathAt(o, Greatest(starts))
        CommentAt(o, r) ==
            IF r + 1 <= Len(s) /\ s[r] = "/" /\ s[r + 1] = "/"
            THEN WordAt(o, WsEnd(s, r + 2))
            ELSE IF r <= Len(s) /\ s[r] = "#" THEN WordAt(o, WsEnd(s, r + 1))
            ELSE [found |-> FALSE]
        Opened(o) == IF ~o.ok THEN [found |-> FALSE] ELSE CommentAt(o, o.next)
    IN  Opened(BlockOpening(s, p))

\* ([^\r\n]+?)\s*\*/\r?\n from index k: the lazy path ends at the first
\* place that leaves blanks, the end of the comment and a newline
CommentPathEnds(s, k) ==
    {m \in k..(LineEnd(s, k) - 1) :
        LET w == WsEnd(s, m + 1)
        IN  /\ w + 2 <= Len(s)
            /\ s[w] = "*" /\ s[w + 1] = "/" /\ s[w + 2] = NL
            /\ FirstIndex(s, w + 3, IsFence) <= Len(s)}

\* the match of file pattern 2 at p:  /* filename: path */
MatchBlockCommentFile(s, p) ==
    LET Closed(o, k, m, z) ==
            [found |-> TRUE, start |-> p,
             end |-> FirstIndex(s, z + 1, IsFence),
             language |-> o.language,
             rawFilePath |-> Trim(SubSeq(s, k, m)),
             content |-> Trim(SubSeq(s, z + 1, FirstIndex(s, z + 1, IsFence) - 1))]
        PathTo(o, k, m) == Closed(o, k, m, WsEnd(s, m + 1) + 2)
        PathAt(o, k) == PathTo(o, k, Least(CommentPathEnds(s, k)))
        PathIn(o, starts) ==
            IF starts = {} THEN [found |-> FALSE] ELSE PathAt(o, Greatest(starts))
        WordAt(o, t) ==
            IF ~IsFileWord(s, t) THEN [found |-> FALSE]
            ELSE PathIn(o, {k \in (t + 2)..WsEnd(s, t + 2) :
                              /\ k <= Len(s)
                              /\ s[k] # NL
                              /\ CommentPathEnds(s, k) # {}})
        CommentAt(o, r) ==
            IF r + 1 <= Len(s) /\ s[r] = "/" /\ s[r + 1] = "*"
            THEN WordAt(o, WsEnd(s, r + 2))
            ELSE [found |-> FALSE]
        Opened(o) == IF ~o.ok THEN [found |-> FALSE] ELSE CommentAt(o, o.next)
    IN  Opened(BlockOpening(s, p))

\* [a-zA-Z0-9_\-\/\.]+\.\w+ on the run of name tokens r..z-1
IsBareFileName(s, r, z) ==
    \E d \in (r + 1)..(z - 2) :
        /\ s[d] = "."
        /\ \A k \in (d + 1)..(z - 1) : IsWord(s[k])

\* the match of file pattern 3 at p: the file name alone on the first line
MatchBareFile(s, p) ==
    LET Closed(o, r, z, f) ==
            IF f > Len(s) THEN [found |-> FALSE]
            ELSE [found |-> TRUE, start |-> p, end |-> f,
                  language |-> o.language,
                  rawFilePath |-> Trim(SubSeq(s, r, z - 1)),
                  content |-> Trim(SubSeq(s, z + 1, f - 1))]
        NameTo(o, r, z) ==
            IF z > Len(s) THEN [found |-> FALSE]
            ELSE IF s[z] # NL \/ ~IsBareFileName(s, r, z) THEN [found |-> FALSE]
            ELSE Closed(o, r, z, FirstIndex(s, z + 1, IsFence))
        NameAt(o, r) == NameTo(o, r, FirstIndex(s, r, NotNameToken))
        Opened(o) == IF ~o.ok THEN [found |-> FALSE] ELSE NameAt(o, o.next)
    IN  Opened(BlockOpening(s, p))

MatchFilePattern(n, s, p) ==
    CASE n = 1 -> MatchCommentFile(s, p)
      [] n = 2 -> MatchBlockCommentFile(s, p)
      [] n = 3 -> MatchBareFile(s, p)

\* \s*\nFENCE(\w+)?\s*\n([\s\S]*?)FENCE after a path that ends before z
InlineBlock(s, z) ==
    LET Closed(w, q, e, f) ==
            IF f > Len(s) THEN [found |-> FALSE]
            ELSE [found |-> TRUE, end |-> f,
                  language |-> IF q = w + 1 THEN TextLanguage
                               ELSE SubSeq(s, w + 1, q - 1),
                  content |-> Trim(SubSeq(s, e + 1, f - 1))]
        ContentFrom(w, q, e) == Closed(w, q, e, FirstIndex(s, e + 1, IsFence))
        Tagged(w, q, nls) ==
            IF nls = {} THEN [found |-> FALSE]
            ELSE ContentFrom(w, q, Greatest(nls))
        TagTo(w, q) == Tagged(w, q, RunNewlines(s, q))
        FenceAt(w) ==
            IF w > Len(s) \/ w = z THEN [found |-> FALSE]
            ELSE IF s[w] # FENCE \/ s[w - 1] # NL THEN [found |-> FALSE]
            ELSE TagTo(w, FirstIndex(s, w + 1, NotWord))
    IN  FenceAt(WsEnd(s, z))

\* inline patterns 1 and 2 at p:  File: path  /  filename: path , then a block
MatchInlineWord(word, s, p) ==
    LET Closed(q, z, b) ==
            IF ~b.found THEN [found |-> FALSE]
            ELSE [found |-> TRUE, start |-> p, end |-> b.end,
                  language |-> b.language,
                  rawFilePath |-> Trim(SubSeq(s, q, z - 1)),
                  content |-> b.content]
        PathTo(q, z) == Closed(q, z, InlineBlock(s, z))
        PathAt(q) ==
            IF q > Len(s) THEN [found |-> FALSE]
            ELSE PathTo(q, FirstIndex(s, q, IsWs))
    IN  IF p + 1 > Len(s) THEN [found |-> FALSE]
        ELSE IF Lower(s[p]) # word \/ s[p + 1] # ":" THEN [found |-> FALSE]
        ELSE PathAt(WsEnd(s, p + 2))

\* inline pattern 3 at p:  ## FILE: path , then a block
MatchInlineHeading(s, p) ==
    LET Closed(q, z, b) ==
            IF ~b.found THEN [found |-> FALSE]
            ELSE [found |-> TRUE, start |-> p, end |-> b.end,
                  language |-> b.language,
                  rawFilePath |-> Trim(SubSeq(s, q, z - 1)),
                  content |-> b.content]
        PathTo(q, z) == Closed(q, z, InlineBlock(s, z))
        PathAt(q) ==
            IF q > Len(s) THEN [found |-> FALSE]
            ELSE PathTo(q, LineEnd(s, q))
        WordAt(t) ==
            IF t + 1 > Len(s) THEN [found |-> FALSE]
            ELSE IF Lower(s[t]) # "file" \/ s[t + 1] # ":" THEN [found |-> FALSE]
            ELSE PathAt(WsEnd(s, t + 2))
    IN  IF p + 1 > Len(s) THEN [found |-> FALSE]
        ELSE IF s[p] # "#" \/ s[p + 1] # "#" THEN [found |-> FALSE]
        ELSE WordAt(WsEnd(s, p + 2))

MatchInlinePattern(n, s, p) ==
    CASE n = 1 -> MatchInlineWord("file", s, p)
      [] n = 2 -> MatchInlineWord("filename", s, p)
      [] n = 3 -> MatchInlineHeading(s, p)

\* variant: no content is taken for an edit
HasEditMarkerNever(text) == FALSE

\* content.includes('<<<<<<< SEARCH') || ... '=======' || ... '>>>>>>> REPLACE'
HasEditMarker(text) ==
    \E k \in 1..Len(text) : text[k] \in {SEARCH, SEP, REPLACE}

\* rawFilePath.includes('(') || ... '{' || ... '='
LooksLikeCode(rawFilePath) ==
    \E k \in 1..Len(rawFilePath) : rawFilePath[k] \in {"(", "{", "=", SEP}

\* the artifact with the declared language kept as it is
\* variant: the artifact is marked as already added to the project
ArtifactAdded(m, source) ==
    [path |-> validateAndSanitizePath(m.rawFilePath),
     content |-> m.content,
     language |-> IF m.language = TextLanguage
                  THEN <<getLanguageFromPath(
                             validateAndSanitizePath(m.rawFilePath))>>
                  ELSE m.language,
     createdBy |-> "ai",
     source |-> source,
     addedToProject |-> TRUE]

ArtifactDeclaredLanguage(m, source) ==
    [path |-> validateAndSanitizePath(m.rawFilePath),
     content |-> m.content,
     language |-> m.language,
     createdBy |-> "ai",
     source |-> source,
     addedToProject |-> FALSE]

Artifact(m, source) ==
    LET At(filePath) ==
            [path |-> filePath,
             content |-> m.content,
             language |-> IF m.language = TextLanguage
                          THEN <<getLanguageFromPath(filePath)>>
                          ELSE m.language,
             createdBy |-> "ai",
             source |-> source,
             addedToProject |-> FALSE]
    IN  At(validateAndSanitizePath(m.rawFilePath))

\* the character offset of the token at index p
CharPos(s, p) == CharLen(SubSeq(s, 1, p - 1))

\* pattern.exec(regularContent) with the pattern's lastIndex: the leftmost
\* match that starts at or after that character offset
ExecFrom(Match(_, _), s, lastIndex) ==
    LET First(hits) ==
            IF lastIndex > CharLen(s) \/ hits = {} THEN [found |-> FALSE]
            ELSE Match(s, Least(hits))
    IN  First({p \in 1..Len(s) :
                  CharPos(s, p) >= lastIndex /\ Match(s, p).found})

\* the while loop of one file pattern; st holds regularContent and artifacts.
\* lastIndex stays where the last match ended in the text as it was then.
RECURSIVE FileLoop(_, _, _)
FileLoop(n, st, lastIndex) ==
    LET Match(s, p) == MatchFilePattern(n, s, p)
        Body(m, after) ==
            IF ~m.found \/ Len(st.artifacts) >= MaxArtifacts THEN st
            ELSE IF HasEditMarker(m.content) \/ LooksLikeCode(m.rawFilePath)
            THEN FileLoop(n, st, after)
            ELSE FileLoop(n,
                    [regularContent |->
                         RemoveFirst(st.regularContent,
                                     SubSeq(st.regularContent, m.start, m.end)),
                     artifacts |-> Append(st.artifacts, Artifact(m, "parsed"))],
                    after)
        Step(m) ==
            Body(m, IF m.found
                    THEN CharPos(st.regularContent, m.end) + Width(FENCE)
                    ELSE 0)
    IN  Step(ExecFrom(Match, st.regularContent, lastIndex))

\* the while loop of one inline pattern
RECURSIVE InlineLoop(_, _, _)
InlineLoop(n, st, lastIndex) ==
    LET Match(s, p) == MatchInlinePattern(n, s, p)
        Body(m, after) ==
            IF ~m.found \/ Len(st.artifacts) >= MaxInlineArtifacts THEN st
            ELSE IF HasEditMarker(m.content) THEN InlineLoop(n, st, after)
            ELSE InlineLoop(n,
                    [regularContent |->
                         RemoveFirst(st.regularContent,
                                     SubSeq(st.regularContent, m.start, m.end)),
                     artifacts |-> Append(st.artifacts, Artifact(m, "inline"))],
                    after)
        Step(m) ==
            Body(m, IF m.found
                    THEN CharPos(st.regularContent, m.end) + Width(FENCE)
                    ELSE 0)
    IN  Step(ExecFrom(Match, st.regularContent, lastIndex))

\* regularContent.replace(/\n\s*\n\s*\n/g, '\n\n'): a whitespace run that
\* holds three newlines or more shrinks, from its first newline to its last,
\* to two newlines: the first and the last newline stay and everything
\* between them goes
CollapseBlankLines(s) ==
    LET RunStart(k) == Greatest({0} \cup {m \in 1..(k - 1) : ~IsWs(s[m])}) + 1
        Between(k, nls) ==
            /\ Cardinality(nls) >= 3
            /\ \E m \in nls : m < k
            /\ \E m \in nls : m > k
        Kept(k) ==
            ~(IsWs(s[k])
              /\ Between(k, {m \in RunStart(k)..(WsEnd(s, k) - 1) : s[m] = NL}))
        Positions(idx) == [j \in 1..Len(idx) |-> s[idx[j]]]
    IN  Positions(SelectSeq([k \in 1..Len(s) |-> k], Kept))

CleanContent(text) == Trim(CollapseBlankLines(text))

(***************************************************************************)
(* Messages given to parseLLMResponse: prose and fenced blocks, one per    *)
(* line group                                                              *)
(***************************************************************************)
Prose(text) == [kind |-> "prose", text |-> text]
CodeBlock(tag, body) == [kind |-> "code", tag |-> tag, body |-> body]
EditBlock(path, pairs) == [kind |-> "edit", path |-> path, pairs |-> pairs]
FileBlock(tag, path, body) ==
    [kind |-> "file", tag |-> tag, path |-> path, body |-> body]
BareEdit(pairs) == [kind |-> "bareedit", pairs |-> pairs]
InlineFile(path, tag, body) ==
    [kind |-> "inline", tag |-> tag, path |-> path, body |-> body]

RenderPair(op) ==
    <<SEARCH, NL>> \o op.search \o <<NL, SEP, NL>> \o op.replace
        \o <<NL, REPLACE, NL>>

RECURSIVE RenderPairs(_)
RenderPairs(pairs) ==
    IF pairs = <<>> THEN <<>>
    ELSE RenderPair(pairs[1]) \o RenderPairs(Tail(pairs))

RenderPart(part) ==
    CASE part.kind = "prose" -> part.text
      [] part.kind = "code" ->
            <<FENCE>> \o part.tag \o <<NL>> \o part.body \o <<NL, FENCE>>
      [] part.kind = "edit" ->
            <<FENCE, "edit", NL, AT3, SP>> \o part.path \o <<NL>>
                \o RenderPairs(part.pairs) \o <<FENCE>>
      [] part.kind = "file" ->
            <<FENCE>> \o part.tag \o <<NL, "/", "/", SP, "filename", ":", SP>>
                \o part.path \o <<NL>> \o part.body \o <<NL, FENCE>>
      [] part.kind = "bareedit" ->
            <<FENCE, "edit", NL>> \o RenderPairs(part.pairs) \o <<FENCE>>
      [] part.kind = "inline" ->
            <<"File", ":", SP>> \o part.path \o <<NL, FENCE>> \o part.tag
                \o <<NL>> \o part.body \o <<NL, FENCE>>

\* the parts, each on lines of its own
RECURSIVE Render(_)
Render(parts) ==
    IF parts = <<>> THEN <<>>
    ELSE IF Len(parts) = 1 THEN RenderPart(parts[1])
    ELSE RenderPart(parts[1]) \o <<NL>> \o Render(Tail(parts))

MaxPairs == 2

FooPy == <<"foo", ".", "py">>
SrcXJs == <<"src", "/", "x", ".", "js">>
Notes == <<"notes">>
RouteJs == <<"app", "/", "(", "a", ")", "/", "x", ".", "js">>

SimplePairs == {Op(<<"old">>, <<"new">>), Op(<<"x", SP, "y">>, <<"y">>)}

PairLists == UNION {[1..n -> SimplePairs] : n \in 1..MaxPairs}

\* what may stand before or after a block
Surroundings ==
    {<<>>,
     <<Prose(<<"Here", SP, "it", SP, "is", ":">>)>>,
     <<CodeBlock(<<"js">>, <<"x">>)>>,
     <<CodeBlock(<<>>, <<"x">>)>>,
     <<Prose(<<"See">>), CodeBlock(<<"py">>, <<"y">>), Prose(<<"Then">>)>>}

\* an edit block with its path line and pairs, in its surroundings
EditDocs ==
    {pre \o <<EditBlock(path, pairs)>> \o post :
        pre \in Surroundings, post \in Surroundings,
        path \in {FooPy, SrcXJs, Notes}, pairs \in PairLists}

Proses ==
    {<<"Here", SP, "is", SP, "a", SP, "file", ":">>,
     <<"Here">>,
     <<SP, "Here", NL>>,
     <<"Here", ":", NL, SP, NL, NL, "now">>,
     <<LONG>>}

Tags == {<<"js">>, <<"javascript">>, <<"py">>, <<"text">>, <<"edit">>}

Bodies ==
    {<<"x">>,
     <<SP, SP, "x", SP, "=", SP, "y", ";", NL, "y", NL>>,
     <<>>,
     <<"Title", NL, SEP>>,
     <<SEARCH, NL, "old", NL, SEP, NL, "new", NL, REPLACE>>}

\* prose followed by one file block
FileDocs ==
    {<<Prose(prose), FileBlock(tag, path, body)>> :
        prose \in Proses, tag \in Tags,
        path \in {FooPy, SrcXJs, Notes, RouteJs}, body \in Bodies}

MaxBlocks == 3

\* an edit block with one pair, for one of two files
SmallEditBlocks ==
    {EditBlock(path, <<pair>>) : path \in {FooPy, SrcXJs}, pair \in SimplePairs}

\* several edit blocks one after the other
MultiEditDocs == UNION {[1..n -> SmallEditBlocks] : n \in 2..MaxBlocks}

\* an edit block with about MaxOpsPerBlock pairs, alone or followed by a
\* second block for the same file
ManyPairsDocs ==
    {<<EditBlock(FooPy, Repeat(Op(<<"old">>, <<"new">>), n))>> \o more :
        n \in (MaxOpsPerBlock - 1)..(MaxOpsPerBlock + 1),
        more \in {<<>>, <<EditBlock(FooPy, <<Op(<<"x">>, <<"y">>)>>)>>}}

\* n copies of parts, one after the other
Copies(parts, n) ==
    [m \in 1..(n * Len(parts)) |-> parts[((m - 1) % Len(parts)) + 1]]

\* a line of prose longer than any block below: after a block is removed,
\* the position the pattern resumes from lies before the next block
Pad == <<"aaaaaaaaaaaaaaaaaaaaaaaaaaaaaaaaaaaaaaaa">>

AJs == <<"a", ".", "js">>
BPy == <<"b", ".", "py">>

PaddedFile == <<FileBlock(<<>>, AJs, <<"x">>), Prose(Pad)>>
PaddedInline == <<InlineFile(BPy, <<>>, <<"y">>), Prose(Pad)>>

FileCounts ==
    {0, 1, MaxInlineArtifacts, MaxArtifacts - 1, MaxArtifacts, MaxArtifacts + 1}
InlineCounts == {0, 1, MaxInlineArtifacts, MaxInlineArtifacts + 1}

\* k file blocks followed by j blocks under an inline file marker
Bulk(k, j) == Copies(PaddedFile, k) \o Copies(PaddedInline, j)

BulkDocs == {Bulk(k, j) : k \in FileCounts, j \in InlineCounts}

EditPaths == <<"a", "b", "c", "d", "e", "f">>

\* about MaxEditBlocks edit blocks, each for a file of its own
ManyFilesEdited ==
    {[k \in 1..n |->
         EditBlock(<<EditPaths[k], ".", "py">>, <<Op(<<"old">>, <<"new">>)>>)] :
        n \in (MaxEditBlocks - 1)..(MaxEditBlocks + 1)}

\* what stands between two file blocks: nothing, a word, a long line
Gaps == {<<>>, <<Prose(<<"and">>)>>, <<Prose(Pad)>>}

\* the k-th of a run of file blocks, each for a file of its own
NumberedFile(k) == FileBlock(<<>>, <<EditPaths[k], ".", "js">>, <<"x">>)

\* n file blocks with the same gap between two of them
Spaced(n, gap) ==
    IF gap = <<>> THEN [k \in 1..n |-> NumberedFile(k)]
    ELSE [k \in 1..(2 * n - 1) |->
             IF k % 2 = 1 THEN NumberedFile((k + 1) \div 2) ELSE gap[1]]

SpacedFileDocs == {Spaced(n, gap) : n \in 2..MaxBlocks, gap \in Gaps}

\* pairs whose search text holds what the file marker pattern looks for
MarkerPairs ==
    {Op(<<"old">>, <<"new">>),
     Op(<<"#", SP, "x">>, <<"y">>),
     Op(<<"/", "/", "/", SP, "x">>, <<"y">>),
     Op(<<"x", SP, "file", ":", SP, "y">>, <<"z">>)}

\* one edit block, without a file marker line or with one
VerbatimDocs ==
    {<<BareEdit(<<pair>>)>> : pair \in MarkerPairs}
        \cup {<<EditBlock(FooPy, <<pair>>)>> : pair \in MarkerPairs}

\* one block that names a file and holds what an edit holds
MarkedBodies ==
    {<<SEARCH, NL, "old", NL, SEP, NL, "new", NL, REPLACE>>,
     <<"Title", NL, SEP>>,
     <<"x", SP, REPLACE>>}

MisclassifiedDocs ==
    {<<InlineFile(FooPy, tag, body)>> :
        tag \in {<<>>, <<"js">>, <<"edit">>}, body \in MarkedBodies}
        \cup {<<FileBlock(tag, FooPy, body)>> :
                 tag \in {<<>>, <<"js">>}, body \in MarkedBodies}

ParseDocs ==
    EditDocs \cup FileDocs \cup MultiEditDocs \cup ManyPairsDocs
        \cup BulkDocs \cup ManyFilesEdited \cup SpacedFileDocs
        \cup VerbatimDocs \cup MisclassifiedDocs \cup {<<>>}

(***************************************************************************)
(* parseLLMResponse as a state machine                                     *)
(***************************************************************************)
PatchIdle ==
    /\ originalContent = <<>>
    /\ operations = <<>>
    /\ pc = "idle"
    /\ i = -1
    /\ result = Missing
    /\ appliedCount = 0
    /\ failedOps = <<>>
    /\ stage = "none"
    /\ threw = FALSE

InitParse ==
    /\ PatchIdle
    /\ ReconcilerIdle
    /\ \/ \E d \in ParseDocs : doc = d /\ message = Render(d)
       \/ doc = <<>> /\ message = Missing
    /\ ppc = "start"
    /\ regularContent = <<>>
    /\ artifacts = <<>>
    /\ edits = <<>>
    /\ content = <<>>
    /\ idFails \in BOOLEAN
    /\ caught = FALSE

\* if (!message || typeof message !== 'string') return { content: '', ... }
ParseNothing ==
    /\ ppc = "start"
    /\ Falsy(message)
    /\ content' = <<>>
    /\ artifacts' = <<>>
    /\ edits' = <<>>
    /\ ppc' = "done"
    /\ UNCHANGED <<message, doc, regularContent, idFails, caught>>
    /\ UNCHANGED <<patchVars, reconcilerVars>>

\* the truncation, the scan for edit blocks and the loop over them
EditStage(msg) ==
    LET From(limited) ==
            ConsolidateEdits(ScanEditBlocks(limited, 1, 0),
                             [regularContent |-> limited, edits |-> <<>>])
    IN  From(limitedMessage(msg))

\* the loop over filePatterns
FileStage(st) == FileLoop(3, FileLoop(2, FileLoop(1, st, 0), 0), 0)

\* the loop over inlineFilePatterns
InlineStage(st) == InlineLoop(3, InlineLoop(2, InlineLoop(1, st, 0), 0), 0)

\* the stage at hand builds an EditGroup or an artifact, and so calls
\* generateSafeId
CallsGenerateSafeId ==
    LET Here == [regularContent |-> regularContent, artifacts |-> artifacts]
    IN  \/ ppc = "start" /\ ~Falsy(message) /\ EditStage(message).edits # <<>>
        \/ ppc = "files" /\ FileStage(Here).artifacts # artifacts
        \/ ppc = "inline" /\ InlineStage(Here).artifacts # artifacts

\* variant: the catch block returns an empty content
CaughtResultEmpty(msg) == [content |-> <<>>, artifacts |-> <<>>, edits |-> <<>>]

\* the record the catch block returns
CaughtResult(msg) == [content |-> msg, artifacts |-> <<>>, edits |-> <<>>]

\* catch (error) { ...; return { content: message, artifacts: [], edits: [] } }
\* after generateSafeId threw
CatchError ==
    /\ ppc \in {"start", "files", "inline"}
    /\ idFails
    /\ CallsGenerateSafeId
    /\ \E r \in {CaughtResult(message)} :
            /\ content' = r.content
            /\ artifacts' = r.artifacts
            /\ edits' = r.edits
    /\ caught' = TRUE
    /\ ppc' = "done"
    /\ UNCHANGED <<message, doc, regularContent, idFails>>
    /\ UNCHANGED <<patchVars, reconcilerVars>>

ExtractEdits ==
    /\ ppc = "start"
    /\ ~Falsy(message)
    /\ \E st \in {EditStage(message)} :
            /\ ~(idFails /\ st.edits # <<>>)
            /\ regularContent' = st.regularContent
            /\ edits' = st.edits
    /\ ppc' = "files"
    /\ UNCHANGED <<message, doc, artifacts, content, idFails, caught>>
    /\ UNCHANGED <<patchVars, reconcilerVars>>

ExtractFiles ==
    /\ ppc = "files"
    /\ \E st \in {FileStage([regularContent |-> regularContent,
                              artifacts |-> artifacts])} :
            /\ ~(idFails /\ st.artifacts # artifacts)
            /\ regularContent' = st.regularContent
            /\ artifacts' = st.artifacts
    /\ ppc' = "inline"
    /\ UNCHANGED <<message, doc, edits, content, idFails, caught>>
    /\ UNCHANGED <<patchVars, reconcilerVars>>

ExtractInline ==
    /\ ppc = "inline"
    /\ \E st \in {InlineStage([regularContent |-> regularContent,
                                artifacts |-> artifacts])} :
            /\ ~(idFails /\ st.artifacts # artifacts)
            /\ regularContent' = st.regularContent
            /\ artifacts' = st.artifacts
    /\ ppc' = "cleanup"
    /\ UNCHANGED <<message, doc, edits, content, idFails, caught>>
    /\ UNCHANGED <<patchVars, reconcilerVars>>

\* the clean-up of the prose and the return
ReturnParsed ==
    /\ ppc = "cleanup"
    /\ \E cleaned \in {CleanContent(regularContent)} :
            /\ content' = cleaned
            /\ regularContent' = cleaned
    /\ artifacts' = Slice(artifacts, 0, MaxArtifacts)
    /\ edits' = Slice(edits, 0, MaxEditBlocks)
    /\ ppc' = "done"
    /\ UNCHANGED <<message, doc, idFails, caught>>
    /\ UNCHANGED <<patchVars, reconcilerVars>>

NextParse ==
    \/ ParseNothing
    \/ ExtractEdits
    \/ ExtractFiles
    \/ ExtractInline
    \/ ReturnParsed
    \/ CatchError

SpecParse == InitParse /\ [][NextParse]_vars

(***************************************************************************)
(* Properties of applySearchReplace                                        *)
(***************************************************************************)
Supplied == originalContent # Missing /\ operations # MissingOps

\* the single operation of a one-operation call
TheOp == operations[1]

\* t with the occurrence of s at position k replaced by r
ReplaceAt(t, s, r, k) ==
    SubSeq(t, 1, k) \o r \o SubSeq(t, k + Len(s) + 1, Len(t))

Max(S) == CHOOSE x \in S : \A y \in S : y <= x

OccursOnce(t, s) == Cardinality(Occurrences(t, s)) = 1

RoundTripHolds ==
    /\ result = ReplaceAt(originalContent, TheOp.search, TheOp.replace,
                          Max(Occurrences(originalContent, TheOp.search)))
    /\ appliedCount = 1
    /\ failedOps = <<>>

\* C1 as stated: for every text T and single operation whose search text
\* occurs exactly once in T, the call returns T with that occurrence replaced,
\* appliedCount = 1 and no failed operation.
C1_RoundTripAnyText ==
    (pc = "done" /\ Supplied /\ Len(operations) = 1
        /\ OccursOnce(originalContent, TheOp.search))
    => RoundTripHolds

\* C1 amended: the same for every non-empty text T.
C1_RoundTrip ==
    (pc = "done" /\ Supplied /\ Len(operations) = 1
        /\ originalContent # <<>>
        /\ OccursOnce(originalContent, TheOp.search))
    => RoundTripHolds

C1_Witness ==
    /\ pc = "done" /\ Supplied /\ Len(operations) = 1
    /\ originalContent # <<>>
    /\ OccursOnce(originalContent, TheOp.search)
    /\ Len(TheOp.search) = 2 /\ Len(TheOp.replace) = 1
    /\ Len(originalContent) = 3
    /\ result # originalContent
    /\ appliedCount = 1

\* the two occurrences [k1, k1 + |s1|) and [k2, k2 + |s2|) share no position
Disjoint(k1, s1, k2, s2) == k1 + Len(s1) <= k2 \/ k2 + Len(s2) <= k1

\* C2: for two operations whose search texts are non-overlapping substrings
\* of T, the result does not depend on the order of the two operations.  The
\* claim is taken in its narrowest reading: both search texts are non-empty
\* and each occurs exactly once in T.
C2_OrderIndependent ==
    (pc = "done" /\ Supplied /\ Len(operations) = 2
        /\ operations[1].search # <<>> /\ operations[2].search # <<>>
        /\ OccursOnce(originalContent, operations[1].search)
        /\ OccursOnce(originalContent, operations[2].search)
        /\ Disjoint(Max(Occurrences(originalContent, operations[1].search)),
                    operations[1].search,
                    Max(Occurrences(originalContent, operations[2].search)),
                    operations[2].search))
    => result = applySearchReplace(originalContent,
                                   <<operations[2], operations[1]>>).result

\* the number of operations the call is to process
Processed ==
    IF originalContent \in {Missing, <<>>} \/ operations = MissingOps THEN 0
    ELSE Min(Len(operations), 20)

\* C3 as stated: appliedCount + failedOps.length equals the number of
\* operations supplied.
C3_CountsAllSupplied ==
    (pc = "done" /\ operations # MissingOps)
    => appliedCount + Len(failedOps) = Len(operations)

\* C3 amended: appliedCount + failedOps.length equals the number of operations
\* processed: the first 20 at most, none when the original is empty or
\* missing.  While the loop runs the sum is the number of iterations done,
\* and the failure entries are those of distinct operations.
C3_CountsProcessed ==
    /\ pc = "done" => appliedCount + Len(failedOps) = Processed
    /\ pc = "loop" => appliedCount + Len(failedOps) = Processed - 1 - i
    /\ \A k, m \in 1..Len(failedOps) :
          k # m => failedOps[k].index # failedOps[m].index

C3_Witness ==
    /\ pc = "done"
    /\ Len(operations) > 20
    /\ appliedCount > 0
    /\ Len(failedOps) > 0

\* C4: at most the first 20 operations are processed, last of those first,
\* each on the text left by the operations processed before it, and a failure
\* entry carries the 1-based declaration index of its operation.
C4_ReverseOrder ==
    [][/\ (pc = "call" /\ pc' = "loop")
            => /\ i' = Min(Len(operations), 20) - 1
               /\ result' = originalContent
       /\ (pc = "loop" /\ pc' = "loop")
            => /\ i < 20
               /\ i' = i - 1
               /\ Occurrences(result, operations[i + 1].search) # {}
                    => /\ appliedCount' = appliedCount + 1
                       /\ result' = ReplaceAt(result, operations[i + 1].search,
                                       operations[i + 1].replace,
                                       Max(Occurrences(result,
                                               operations[i + 1].search)))
               /\ Len(failedOps') > Len(failedOps)
                    => /\ failedOps'[Len(failedOps')].index = i + 1
                       /\ Occurrences(result, operations[i + 1].search) = {}
       /\ (pc = "loop" /\ pc' = "done") => i = -1
       /\ \A k \in 1..Len(failedOps') :
             /\ failedOps'[k].index \in 1..Min(Len(operations), 20)
             /\ failedOps'[k].search = operations[failedOps'[k].index].search
      ]_vars

C4_Witness ==
    /\ pc = "done"
    /\ Len(operations) = 21
    /\ operations[1] # operations[2]
    /\ appliedCount > 1
    /\ Len(failedOps) > 1
    /\ failedOps[Len(failedOps)].index = 1

\* C5: when the search text occurs in the current text, only its last
\* occurrence is replaced, by the exact stage.
C5_ExactRightmost ==
    [][(pc = "loop" /\ pc' = "loop"
            /\ Occurrences(result, operations[i + 1].search) # {})
        => /\ stage' = "exact"
           /\ LET search == operations[i + 1].search
                  last == Max(Occurrences(result, search))
              IN  /\ SubSeq(result', 1, last) = SubSeq(result, 1, last)
                  /\ SubSeq(result', last + 1, last + Len(operations[i + 1].replace))
                        = operations[i + 1].replace
                  /\ SubSeq(result', last + Len(operations[i + 1].replace) + 1,
                            Len(result'))
                        = SubSeq(result, last + Len(search) + 1, Len(result))
      ]_vars

C5_Witness ==
    /\ pc = "done" /\ Supplied /\ Len(operations) = 1
    /\ Cardinality(Occurrences(originalContent, TheOp.search)) >= 2
    /\ TheOp.search # <<>>
    /\ TheOp.replace # TheOp.search
    /\ stage = "exact"
    /\ result # originalContent

\* the lines of the search text, trimmed
TrimmedLines(s) == [k \in 1..Len(SplitLines(s)) |-> Trim(SplitLines(s)[k])]

\* the start lines of the runs of file lines equal, once trimmed, to the
\* trimmed lines of the search text
FuzzyRuns(t, s) ==
    {k \in 0..(Len(SplitLines(t)) - Len(SplitLines(s))) :
        \A j \in 1..Len(SplitLines(s)) :
            Trim(SplitLines(t)[k + j]) = TrimmedLines(s)[j]}

OptNL == {<<>>, <<NL>>}

\* C6: when the search text is not a substring of the current text and some
\* run of file lines equals its lines once trimmed, the operation is applied
\* by the fuzzy stage on the run nearest the end of the file, which is
\* replaced by the replace text verbatim.
C6_FuzzyFallback ==
    [][(pc = "loop" /\ pc' = "loop"
            /\ Occurrences(result, operations[i + 1].search) = {}
            /\ FuzzyRuns(result, operations[i + 1].search) # {})
        => /\ stage' = "fuzzy"
           /\ appliedCount' = appliedCount + 1
           /\ failedOps' = failedOps
           /\ LET search == operations[i + 1].search
                  lines == SplitLines(result)
                  start == Max(FuzzyRuns(result, search))
                  before == JoinLines(SubSeq(lines, 1, start))
                  after == JoinLines(SubSeq(lines,
                                start + Len(SplitLines(search)) + 1, Len(lines)))
              IN  \E s1, s2 \in OptNL :
                     result' = before \o s1 \o operations[i + 1].replace
                                  \o s2 \o after
      ]_vars

C6_Witness ==
    /\ pc = "done" /\ Supplied /\ Len(operations) = 1
    /\ Occurrences(originalContent, TheOp.search) = {}
    /\ Cardinality(FuzzyRuns(originalContent, TheOp.search)) >= 2
    /\ Trim(TheOp.search) # <<>>
    /\ TheOp.replace # <<>>
    /\ stage = "fuzzy"
    /\ appliedCount = 1

\* C7: an operation with neither an exact nor a fuzzy match adds exactly one
\* failure entry, leaves the working text as it was, raises nothing, and the
\* loop goes on to the remaining operations until all have been processed.
C7_FailureReported ==
    [][/\ (pc = "loop" /\ pc' = "loop"
            /\ Occurrences(result, operations[i + 1].search) = {}
            /\ FuzzyRuns(result, operations[i + 1].search) = {})
          => /\ Len(failedOps') = Len(failedOps) + 1
             /\ SubSeq(failedOps', 1, Len(failedOps)) = failedOps
             /\ result' = result
             /\ appliedCount' = appliedCount
             /\ threw' = FALSE
             /\ i' = i - 1
       /\ (pc = "loop" /\ pc' = "done") => (i = -1 /\ threw' = FALSE)
      ]_vars

C7_Witness ==
    /\ pc = "done" /\ Supplied /\ Len(operations) = 2
    /\ Len(failedOps) = 1
    /\ failedOps[1].index = 2
    /\ appliedCount = 1
    /\ result # originalContent

\* C8: the call never throws, and with an empty or missing original or
\* operations it returns the original as given with appliedCount = 0.
C8_NeverThrows ==
    /\ threw = FALSE
    /\ (pc = "done"
          /\ (originalContent \in {Missing, <<>>}
                \/ operations \in {MissingOps, <<>>}))
       => (result = originalContent /\ appliedCount = 0)

C8_Witness ==
    /\ pc = "done"
    /\ operations = MissingOps
    /\ originalContent \notin {Missing, <<>>}
    /\ result = originalContent

(***************************************************************************)
(* Properties of parseLLMResponse                                          *)
(***************************************************************************)
\* the call has returned
Returned == ppc = "done"

\* the call has returned from its try block
Completed == Returned /\ ~caught

\* the parts of the message that are edit blocks, file blocks
EditParts == {k \in 1..Len(doc) : doc[k].kind = "edit"}
FileParts == {k \in 1..Len(doc) : doc[k].kind = "file"}

\* the message is prose followed by one file block
ProseThenFile ==
    /\ Len(doc) = 2
    /\ doc[1].kind = "prose"
    /\ doc[2].kind = "file"

Has(s, tokens) == \E k \in 1..Len(s) : s[k] \in tokens

\* the file block the parser is written for: a message within the size
\* limit, a path that does not look like code, a body without edit markers
PlainFileBlock ==
    /\ ProseThenFile
    /\ CharLen(message) <= maxMessageSize
    /\ ~Has(doc[2].path, {"(", "{", "=", SEP})
    /\ ~Has(doc[2].body, {SEARCH, SEP, REPLACE, FENCE})

\* C9 (as stated): a fenced edit block with its @@@ path line and n pairs,
\* whatever precedes or follows it, comes back as an EditGroup with the
\* sanitized path and those n pairs in declaration order.
C9_EditExtracted ==
    Completed =>
        \A k \in EditParts :
            \E g \in 1..Len(edits) :
                /\ edits[g].path = validateAndSanitizePath(doc[k].path)
                /\ edits[g].operations = doc[k].pairs

\* C10 (as stated): prose followed by one file block with tag L and a
\* // filename: line gives exactly one artifact with the sanitized path, the
\* trimmed body and language L, no edits, and prose free of the block.
C10_FileExtractedAnyBlock ==
    (Completed /\ ProseThenFile) =>
        /\ Len(artifacts) = 1
        /\ artifacts[1].path = validateAndSanitizePath(doc[2].path)
        /\ artifacts[1].content = Trim(doc[2].body)
        /\ artifacts[1].language = doc[2].tag
        /\ edits = <<>>
        /\ content = CleanContent(doc[1].text)

\* C10 (amended): when the message is within the size limit, the path has
\* none of ( { = and the body has no edit marker and no fence, the result is
\* exactly one artifact with the sanitized path, the trimmed body, and
\* language L, or the language of the path's extension when L is text; no
\* edits; and the returned prose is the prose alone.
C10_FileExtracted ==
    (Completed /\ PlainFileBlock) =>
        /\ Len(artifacts) = 1
        /\ artifacts[1].path = validateAndSanitizePath(doc[2].path)
        /\ artifacts[1].content = Trim(doc[2].body)
        /\ artifacts[1].language =
              IF doc[2].tag = TextLanguage
              THEN <<getLanguageFromPath(validateAndSanitizePath(doc[2].path))>>
              ELSE doc[2].tag
        /\ artifacts[1].source = "parsed"
        /\ edits = <<>>
        /\ content = CleanContent(doc[1].text)
        /\ ~Has(content, {FENCE})

C10_Witness ==
    /\ Completed
    /\ PlainFileBlock
    /\ doc[2].tag = TextLanguage
    /\ doc[2].path = SrcXJs
    /\ Len(artifacts) = 1
    /\ artifacts[1].language = <<"javascript">>
    /\ content # <<>>

\* the message is made of edit blocks only, no more than the parser takes
OnlyEditBlocks ==
    /\ doc # <<>>
    /\ Len(doc) <= MaxEditBlocks
    /\ \A k \in 1..Len(doc) : doc[k].kind = "edit"

\* the pairs one edit block contributes: its first ten
BlockPairs(part) ==
    SubSeq(part.pairs, 1,
           IF Len(part.pairs) < MaxOpsPerBlock
           THEN Len(part.pairs) ELSE MaxOpsPerBlock)

\* what the edit blocks of parts that declare this path contribute, in order
RECURSIVE PairsFor(_, _)
PairsFor(parts, path) ==
    IF parts = <<>> THEN <<>>
    ELSE (IF parts[1].kind = "edit"
             /\ validateAndSanitizePath(parts[1].path) = path
          THEN BlockPairs(parts[1]) ELSE <<>>)
         \o PairsFor(Tail(parts), path)

\* C11: the returned EditGroups have pairwise distinct paths, each group's
\* operationCount is the length of its operations, and the blocks that
\* declare one path are merged into one group whose operations are theirs
\* (the first ten of each block) concatenated in block order.
C11_Consolidated ==
    Completed =>
        /\ \A g, h \in 1..Len(edits) : edits[g].path = edits[h].path => g = h
        /\ \A g \in 1..Len(edits) :
              edits[g].operationCount = Len(edits[g].operations)
        /\ OnlyEditBlocks =>
              /\ \A k \in 1..Len(doc) :
                    \E g \in 1..Len(edits) :
                        edits[g].path = validateAndSanitizePath(doc[k].path)
              /\ \A g \in 1..Len(edits) :
                    edits[g].operations = PairsFor(doc, edits[g].path)

C11_Witness ==
    /\ Completed
    /\ Len(doc) = 3
    /\ OnlyEditBlocks
    /\ doc[1].path = doc[3].path
    /\ doc[1].path # doc[2].path
    /\ doc[1].pairs # doc[3].pairs
    /\ Len(edits) = 2
    /\ edits[1].operations = doc[1].pairs \o doc[3].pairs
    /\ edits[1].operationCount = 2

\* C12 (as stated): every returned EditGroup has at most 10 operations.
C12_GroupAtMostTen ==
    Completed =>
        \A g \in 1..Len(edits) : Len(edits[g].operations) <= MaxOpsPerBlock

\* C13: parseLLMResponse returns at most 10 artifacts and at most 5
\* EditGroups, and every returned artifact has addedToProject = false.
C13_Bounded ==
    Returned =>
        /\ Len(artifacts) <= MaxArtifacts
        /\ Len(edits) <= MaxEditBlocks
        /\ \A a \in 1..Len(artifacts) : ~artifacts[a].addedToProject

C13_Witness ==
    /\ Returned
    /\ doc = Bulk(MaxArtifacts + 1, 0)
    /\ Len(artifacts) = MaxArtifacts
    /\ \A a \in 1..Len(artifacts) : ~artifacts[a].addedToProject

\* the returned artifacts of the file-creation stage and of the inline stage
ParsedArtifacts == {a \in 1..Len(artifacts) : artifacts[a].source = "parsed"}
InlineArtifacts == {a \in 1..Len(artifacts) : artifacts[a].source = "inline"}

\* C14 (as stated): the inline stage adds up to 5 artifacts whatever number
\* the file-creation stage produced, the total staying at most 10: of j
\* inline blocks, min(j, 5) become artifacts, as far as the total allows.
C14_InlineOwnBound ==
    Completed =>
        \A k \in FileCounts, j \in InlineCounts :
            doc = Bulk(k, j) =>
                Cardinality(InlineArtifacts)
                    = Min(Min(j, MaxInlineArtifacts),
                          MaxArtifacts - Cardinality(ParsedArtifacts))

\* C15: a call of parseLLMResponse ends with a record: for a missing or an
\* empty message an empty one, and when an exception is raised inside it one
\* with the original message as content and no artifacts or edits.
C15_Defensive ==
    Returned =>
            /\ caught =>
                    /\ content = message
                    /\ artifacts = <<>>
                    /\ edits = <<>>
            /\ Falsy(message) =>
                    /\ content = <<>>
                    /\ artifacts = <<>>
                    /\ edits = <<>>

C15_Witness ==
    /\ Returned
    /\ caught
    /\ ProseThenFile
    /\ content = message
    /\ content # <<>>
    /\ artifacts = <<>>

(***************************************************************************)
(* validateAndSanitizePath as a call of its own                            *)
(***************************************************************************)
MaxPathLen == 4

PathAlphabet == {"a", ".", "/", ":", SP, BACKSLASH}

\* the arguments: short strings, and a missing one
PathInputs == Str(PathAlphabet, MaxPathLen) \cup {Missing}

InitSanitize ==
    /\ PatchIdle
    /\ ParseIdle
    /\ TargetIdle
    /\ DedupIdle
    /\ ProjectIdle
    /\ ChatIdle
    /\ rawPath \in PathInputs
    /\ cleanPath = <<>>
    /\ spc = "call"

SanitizeCall ==
    /\ spc = "call"
    /\ cleanPath' = validateAndSanitizePath(rawPath)
    /\ spc' = "done"
    /\ UNCHANGED rawPath
    /\ UNCHANGED <<patchVars, parseVars, targetVars, dedupVars, projectVars,
                   chatVars>>

NextSanitize == SanitizeCall

SpecSanitize == InitSanitize /\ [][NextSanitize]_vars

(***************************************************************************)
(* Properties of validateAndSanitizePath                                   *)
(***************************************************************************)
Sanitized == spc = "done"

ForbiddenChars == {"<", ">", ":", "\"", "|", "?", "*"}

HasDotDot(s) == \E k \in 1..(Len(s) - 1) : s[k] = "." /\ s[k + 1] = "."

\* C19 (as stated): validateAndSanitizePath returns a non-empty string that
\* holds none of the characters < > : " | ? * and no ".." sequence.
C19_CleanPath ==
    Sanitized =>
        /\ cleanPath # <<>>
        /\ \A k \in 1..Len(cleanPath) : cleanPath[k] \notin ForbiddenChars
        /\ ~HasDotDot(cleanPath)

\* the path before the extension is decided
Cleaned(path) == StripChars(Trim(Slashes(StripDotDot(path))))

\* the part of s after its last slash
FinalSegment(s) ==
    Drop(s, Greatest({0} \cup {k \in 1..Len(s) : s[k] = "/"}))

EndsInSlash(s) == s # <<>> /\ s[Len(s)] = "/"

\* C20 (as stated): ".txt" is appended exactly when the final segment of the
\* cleaned path holds no '.' and the cleaned path does not end in "/";
\* otherwise the cleaned path is returned as it is.
C20_TxtWhenNoExtension ==
    (Sanitized /\ ~Falsy(rawPath)) =>
        IF ~Has(FinalSegment(Cleaned(rawPath)), {"."})
           /\ ~EndsInSlash(Cleaned(rawPath))
        THEN cleanPath = Cleaned(rawPath) \o <<".", "txt">>
        ELSE cleanPath = Cleaned(rawPath)

(***************************************************************************)
(* deduplicateArtifacts                                                    *)
(***************************************************************************)
MaxListLen == 3

\* variant: the Set never reports a key as seen
SeenNever(seen, key) == FALSE

\* seen.has(key)
SeenHas(seen, key) == key \in seen

\* artifacts.filter(...) from the k-th artifact on, with the Set seen and the
\* artifacts kept so far
RECURSIVE FilterSeen(_, _, _, _)
FilterSeen(xs, k, seen, kept) ==
    IF k > Len(xs) THEN kept
    ELSE IF SeenHas(seen, xs[k].path) THEN FilterSeen(xs, k + 1, seen, kept)
    ELSE FilterSeen(xs, k + 1, seen \cup {xs[k].path}, Append(kept, xs[k]))

deduplicateArtifacts(xs) == FilterSeen(xs, 1, {}, <<>>)

\* artifacts of a project: a path and a content
ProjectFiles ==
    {[path |-> path, content |-> text] :
        path \in {AJs, BPy, FooPy}, text \in {<<"x">>, <<"y">>}}

DedupInputs == UNION {[1..n -> ProjectFiles] : n \in 0..MaxListLen}

InitDedup ==
    /\ PatchIdle
    /\ ParseIdle
    /\ SanitizeIdle
    /\ TargetIdle
    /\ ProjectIdle
    /\ ChatIdle
    /\ dedupInput \in DedupInputs
    /\ dedupOutput = <<>>
    /\ dpc = "call"

DedupCall ==
    /\ dpc = "call"
    /\ dedupOutput' = deduplicateArtifacts(dedupInput)
    /\ dpc' = "done"
    /\ UNCHANGED dedupInput
    /\ UNCHANGED <<patchVars, parseVars, sanitizeVars, targetVars, projectVars,
                   chatVars>>

NextDedup == DedupCall

SpecDedup == InitDedup /\ [][NextDedup]_vars

(***************************************************************************)
(* Properties of deduplicateArtifacts                                      *)
(***************************************************************************)
Deduplicated == dpc = "done"

\* the artifacts of xs that no earlier artifact of xs shares its path with,
\* in their order
FirstOccurrences(xs) ==
    LET IsFirst(k) == \A m \in 1..(k - 1) : xs[m].path # xs[k].path
        At(idx) == [j \in 1..Len(idx) |-> xs[idx[j]]]
    IN  At(SelectSeq([k \in 1..Len(xs) |-> k], IsFirst))

\* C18: deduplicateArtifacts returns the first artifact of each path, in the
\* order of the list and unmodified, and applied to its own result returns
\* that result.
C18_FirstOccurrences ==
    Deduplicated =>
        /\ dedupOutput = FirstOccurrences(dedupInput)
        /\ deduplicateArtifacts(dedupOutput) = dedupOutput

C18_Witness ==
    /\ Deduplicated
    /\ Len(dedupInput) = 3
    /\ dedupInput[1].path = dedupInput[3].path
    /\ dedupInput[1].content # dedupInput[3].content
    /\ dedupInput[1].path # dedupInput[2].path
    /\ dedupOutput = <<dedupInput[1], dedupInput[2]>>

(***************************************************************************)
(* findTargetFileForEdit                                                   *)
(***************************************************************************)
MaxTargetFiles == 50

\* String.prototype.toLowerCase on the letters of the model
LowerCase(s) ==
    [k \in 1..Len(s) |->
        CASE s[k] = "A" -> "a"
          [] s[k] = "S" -> "s"
          [] OTHER -> s[k]]

\* replace(/^\.?\//, '')
StripLeadingSlash(s) ==
    IF Len(s) >= 1 /\ s[1] = "/" THEN Drop(s, 1)
    ELSE IF Len(s) >= 2 /\ s[1] = "." /\ s[2] = "/" THEN Drop(s, 2)
    ELSE s

\* replace(/\s+/g, '-')
DashSpaces(s) ==
    LET Starts(k) == ~(IsWs(s[k]) /\ k > 1 /\ IsWs(s[k - 1]))
        At(idx) == [j \in 1..Len(idx) |->
                       IF IsWs(s[idx[j]]) THEN "-" ELSE s[idx[j]]]
    IN  At(SelectSeq([k \in 1..Len(s) |-> k], Starts))

normalizePath(path) ==
    IF Falsy(path) THEN <<>>
    ELSE Trim(DashSpaces(StripLeadingSlash(Slashes(LowerCase(path)))))

\* String.prototype.includes
Includes(s, t) ==
    \E k \in 0..(Len(s) - Len(t)) : SubSeq(s, k + 1, k + Len(t)) = t

\* the test of the n-th loop, on the path of one artifact
StageMatches(n, artPath, edit) ==
    LET Exact(a, e) == a = e
        FileName(a, e) == FinalSegment(a) = FinalSegment(e)
        Partial(a, e) == Includes(a, e) \/ Includes(e, a)
    IN  CASE n = 1 -> Exact(normalizePath(artPath), normalizePath(edit))
          [] n = 2 -> FileName(normalizePath(artPath), normalizePath(edit))
          [] n = 3 -> Partial(normalizePath(artPath), normalizePath(edit))
          [] n = 4 -> Partial(LowerCase(artPath), LowerCase(edit))

\* the artifacts of the list that the n-th loop accepts
StageHits(paths, edit, n) ==
    {k \in 1..Len(paths) : StageMatches(n, paths[k], edit)}

\* the first artifact of the first loop that accepts one, 0 for null
Cascade(paths, edit) ==
    LET Pick(h1, h2, h3, h4) ==
            IF h1 # {} THEN Least(h1)
            ELSE IF h2 # {} THEN Least(h2)
            ELSE IF h3 # {} THEN Least(h3)
            ELSE IF h4 # {} THEN Least(h4)
            ELSE 0
    IN  Pick(StageHits(paths, edit, 1), StageHits(paths, edit, 2),
             StageHits(paths, edit, 3), StageHits(paths, edit, 4))

findTargetFileForEdit(paths, edit) ==
    IF paths = Missing \/ Len(paths) = 0 THEN 0
    ELSE Cascade(Slice(paths, 0, MaxTargetFiles), edit)

MaxTargets == 2

\* paths of project files and declared paths of edits
TargetPaths ==
    {<<"s", "/", "a", ".", "j">>,
     <<"a", ".", "j">>,
     <<"A", ".", "j">>,
     <<".", "/", "a", ".", "j">>,
     <<"s", BACKSLASH, "A", ".", "j">>,
     <<"t", "/", "a", ".", "j">>,
     <<"a", SP, "b">>,
     <<"a", "-", "b">>,
     <<"j">>}

\* a file no declared path of the model matches
OtherFile == <<"z">>

ShortLists == UNION {[1..n -> TargetPaths] : n \in 0..MaxTargets}

\* a project of about MaxTargetFiles other files, and one more
LongLists ==
    {Copies(<<OtherFile>>, n) \o <<p>> :
        n \in (MaxTargetFiles - 1)..MaxTargetFiles, p \in TargetPaths}

InitTarget ==
    /\ PatchIdle
    /\ ParseIdle
    /\ SanitizeIdle
    /\ DedupIdle
    /\ ProjectIdle
    /\ ChatIdle
    /\ targetArtifacts \in ShortLists \cup LongLists \cup {Missing}
    /\ editPath \in TargetPaths \cup {<<"b", ".", "j">>}
    /\ target = 0
    /\ fpc = "call"

TargetCall ==
    /\ fpc = "call"
    /\ target' = findTargetFileForEdit(targetArtifacts, editPath)
    /\ fpc' = "done"
    /\ UNCHANGED <<targetArtifacts, editPath>>
    /\ UNCHANGED <<patchVars, parseVars, sanitizeVars, dedupVars, projectVars,
                   chatVars>>

NextTarget == TargetCall

SpecTarget == InitTarget /\ [][NextTarget]_vars

(***************************************************************************)
(* Properties of findTargetFileForEdit                                     *)
(***************************************************************************)
Resolved == fpc = "done"

\* the artifacts of the whole list that match at stage n
MatchesAt(n) ==
    IF targetArtifacts = Missing THEN {}
    ELSE StageHits(targetArtifacts, editPath, n)

\* C16 (as stated): the artifact returned is the first of the list that
\* matches at the earliest stage at which any artifact of the list matches,
\* and null is returned exactly when no artifact matches at any stage.
C16_Cascade ==
    Resolved =>
        /\ target = 0 <=> \A n \in 1..4 : MatchesAt(n) = {}
        /\ \A n \in 1..4 :
              (MatchesAt(n) # {} /\ \A m \in 1..(n - 1) : MatchesAt(m) = {})
                  => target = Least(MatchesAt(n))

(***************************************************************************)
(* The artifacts of the current conversation and the handlers that change  *)
(* them                                                                    *)
(***************************************************************************)
MaxProjectLen == 3
MaxClock == 2

Contents == {<<"x">>, <<"y">>}

\* the lists a response is parsed into
ParsedLists == UNION {[1..n -> ProjectFiles] : n \in 1..2}

\* handleArtifactUpdate(newArtifacts): the list is stored deduplicated
handleArtifactUpdate(newArtifacts) == deduplicateArtifacts(newArtifacts)

\* currentArtifacts.some(existing => existing.path === artifact.path ||
\*     existing.content === artifact.content)
\* existing.path === artifact.path || (existing.content && artifact.content
\* && existing.content === artifact.content), for some existing artifact
isDuplicateOf(existing, artifact) ==
    \E k \in 1..Len(existing) :
        \/ existing[k].path = artifact.path
        \/ /\ existing[k].content # <<>>
           /\ artifact.content # <<>>
           /\ existing[k].content = artifact.content

isDuplicate(artifact) == isDuplicateOf(currentArtifacts, artifact)

\* sendMessage: the artifacts of the parsed response that are no duplicates
\* are added to the project
AddFromResponse ==
    \E parsed \in ParsedLists :
        \E enhanced \in {SelectSeq(parsed, LAMBDA a : ~isDuplicate(a))} :
            /\ Len(enhanced) > 0
            /\ Len(currentArtifacts) + Len(enhanced) <= MaxProjectLen
            /\ currentArtifacts' =
                   handleArtifactUpdate(currentArtifacts \o enhanced)
            /\ UNCHANGED clock
            /\ UNCHANGED <<patchVars, parseVars, sanitizeVars, targetVars,
                           dedupVars, chatVars>>

\* the Add button of an artifact of a message
ManualAdd ==
    \E artifact \in ProjectFiles :
        /\ Len(currentArtifacts) < MaxProjectLen
        /\ currentArtifacts' =
               handleArtifactUpdate(Append(currentArtifacts, artifact))
        /\ UNCHANGED clock
        /\ UNCHANGED <<patchVars, parseVars, sanitizeVars, targetVars,
                       dedupVars, chatVars>>

\* handleCreateNewFile at the root: new-file-<Date.now()>.txt
CreateNewFile ==
    /\ Len(currentArtifacts) < MaxProjectLen
    /\ clock < MaxClock
    /\ currentArtifacts' =
           Append(currentArtifacts,
                  [path |-> <<"new-file-", ToString(clock), ".", "txt">>,
                   content |-> <<>>])
    /\ clock' = clock + 1
    /\ UNCHANGED <<patchVars, parseVars, sanitizeVars, targetVars,
                   dedupVars, chatVars>>

FolderNames == {<<"src">>, <<"src", ":">>, <<"lib">>, <<SP>>}

\* newFolderName.trim().replace(/[<>:"/\\|?*]/g, '')
sanitizedName(name) ==
    SelectSeq(Trim(name),
              LAMBDA t : t \notin {"<", ">", ":", "\"", "/", BACKSLASH,
                                   "|", "?", "*"})

\* handleCreateNewFolder at the root: a placeholder file in the folder
CreateNewFolder ==
    \E name \in FolderNames :
        /\ Len(currentArtifacts) < MaxProjectLen
        /\ IF Trim(name) = <<>> THEN UNCHANGED currentArtifacts
           ELSE currentArtifacts' =
                    Append(currentArtifacts,
                           [path |-> sanitizedName(name) \o <<"/", ".", "keep">>,
                            content |-> <<"#">>])
        /\ UNCHANGED clock
        /\ UNCHANGED <<patchVars, parseVars, sanitizeVars, targetVars,
                       dedupVars, chatVars>>

\* the content of every artifact with this path is replaced
WithContent(path, text) ==
    [k \in 1..Len(currentArtifacts) |->
        IF currentArtifacts[k].path = path
        THEN [currentArtifacts[k] EXCEPT !.content = text]
        ELSE currentArtifacts[k]]

\* handleSave of the selected file
Save ==
    \E k \in 1..Len(currentArtifacts), text \in Contents :
        /\ currentArtifacts' = WithContent(currentArtifacts[k].path, text)
        /\ UNCHANGED clock
        /\ UNCHANGED <<patchVars, parseVars, sanitizeVars, targetVars,
                       dedupVars, chatVars>>

\* handleDelete
Delete ==
    \E k \in 1..Len(currentArtifacts) :
        /\ currentArtifacts' =
               SelectSeq(currentArtifacts,
                         LAMBDA a : a.path # currentArtifacts[k].path)
        /\ UNCHANGED clock
        /\ UNCHANGED <<patchVars, parseVars, sanitizeVars, targetVars,
                       dedupVars, chatVars>>

\* handleApplyEditFromViewer: the target's content becomes the result of the
\* edit, and the list goes through handleArtifactUpdate
ApplyEdit ==
    \E k \in 1..Len(currentArtifacts), text \in Contents :
        /\ currentArtifacts' =
               handleArtifactUpdate(WithContent(currentArtifacts[k].path, text))
        /\ UNCHANGED clock
        /\ UNCHANGED <<patchVars, parseVars, sanitizeVars, targetVars,
                       dedupVars, chatVars>>

\* the artifact lists of a file written by the export: no path twice
ImportedLists ==
    {xs \in ParsedLists : \A a, b \in 1..Len(xs) : xs[a].path = xs[b].path => a = b}

\* importConversations: setArtifacts(imported.artifacts)
Import ==
    \E imported \in ImportedLists :
        /\ currentArtifacts' = imported
        /\ UNCHANGED clock
        /\ UNCHANGED <<patchVars, parseVars, sanitizeVars, targetVars,
                       dedupVars, chatVars>>

InitProject ==
    /\ PatchIdle
    /\ ParseIdle
    /\ SanitizeIdle
    /\ TargetIdle
    /\ DedupIdle
    /\ ChatIdle
    /\ currentArtifacts = <<>>
    /\ clock = 0

NextProject ==
    \/ AddFromResponse
    \/ ManualAdd
    \/ CreateNewFile
    \/ CreateNewFolder
    \/ Save
    \/ Delete
    \/ ApplyEdit
    \/ Import

SpecProject == InitProject /\ [][NextProject]_vars

\* C17 (as stated): no two artifacts of the conversation have the same path.
C17_UniquePaths ==
    \A a, b \in 1..Len(currentArtifacts) :
        currentArtifacts[a].path = currentArtifacts[b].path => a = b

(***************************************************************************)
(* Further properties of parseLLMResponse                                  *)
(***************************************************************************)
\* C24 (as stated): of n file blocks with paths of their own, whatever
\* stands between them, n artifacts are returned in the order of the message
\* and the content returned holds none of the blocks.
C24_EveryFileBlock ==
    Completed =>
        \A n \in 2..MaxBlocks, gap \in Gaps :
            doc = Spaced(n, gap) =>
                /\ Len(artifacts) = n
                /\ \A k \in 1..Len(artifacts) :
                      artifacts[k].path = NumberedFile(k).path
                /\ ~Has(content, {FENCE})

\* C30 (as stated): an edit block without a file marker line yields an
\* EditGroup with path 'unknown', and the operations of an edit block, with
\* or without a marker line, carry the search and the replace text as they
\* are written, whatever they hold.
C30_Verbatim ==
    (Completed /\ doc \in VerbatimDocs) =>
        /\ Len(edits) = 1
        /\ doc[1].kind = "bareedit" => edits[1].path = Unknown
        /\ edits[1].operations = doc[1].pairs

\* the block is one the edit stage takes operations from, and they are in
\* the group of its path
GivesEditGroup(block) ==
    LET From(m) ==
            /\ m.found
            /\ BlockEdit(m).operations # <<>>
            /\ \E e \in 1..Len(edits) :
                  /\ edits[e].path = BlockEdit(m).path
                  /\ \A o \in 1..Len(BlockEdit(m).operations) :
                        \E q \in 1..Len(edits[e].operations) :
                            edits[e].operations[q] = BlockEdit(m).operations[o]
    IN  From(MatchEditBlock(block, 1))

\* the block is one a file pattern or an inline pattern matches, and an
\* artifact has its path and its content
GivesArtifact(block) ==
    LET From(m) ==
            /\ m.found
            /\ \E a \in 1..Len(artifacts) :
                  /\ artifacts[a].content = m.content
                  /\ artifacts[a].path = validateAndSanitizePath(m.rawFilePath)
    IN  \E n \in 1..3 :
            \/ From(MatchFilePattern(n, block, 1))
            \/ From(MatchInlinePattern(n, block, 1))

\* C25: no returned artifact has a content that holds a marker of an edit,
\* and no block of the message gives both an EditGroup and an artifact.
C25_NoMisclassifiedEdit ==
    Returned =>
        /\ \A a \in 1..Len(artifacts) :
              ~Has(artifacts[a].content, {SEARCH, SEP, REPLACE})
        /\ \A k \in 1..Len(doc) :
              ~(GivesEditGroup(RenderPart(doc[k]))
                    /\ GivesArtifact(RenderPart(doc[k])))

\* a js block that names a file and holds a pair gave nothing
C25_Witness ==
    /\ Completed
    /\ Len(doc) = 1
    /\ doc[1].kind = "file"
    /\ doc[1].tag = <<"js">>
    /\ Has(doc[1].body, {SEARCH})
    /\ artifacts = <<>>
    /\ edits = <<>>

\* C26 (as stated): an operation applied by fuzzy match on the lines
\* start..start+k-1 leaves the lines before them, the replace text and the
\* lines after them, joined by newlines: blank lines before the match and a
\* newline or blank lines after it stay.
C26_OnlyMatchedLines ==
    [][(pc = "loop" /\ pc' = "loop" /\ stage' = "fuzzy")
        => LET search == operations[i + 1].search
               lines == SplitLines(result)
               start == FuzzyStart(result, search)
               k == Len(SplitLines(search))
           IN  result' = JoinLines(Slice(lines, 0, start)
                                       \o <<operations[i + 1].replace>>
                                       \o Slice(lines, start + k, Len(lines)))
      ]_vars

(***************************************************************************)
(* The conversation: sendMessage and the stream it reads, stopGeneration,  *)
(* the diff viewer, and the file operations of the user in between         *)
(***************************************************************************)
MaxMessages == 4
MaxChatFiles == 2

\* the value parseLLMResponse returns when generateSafeId does not throw
parseLLMResponse(msg) ==
    LET Returning(e, n) ==
            [content |-> CleanContent(n.regularContent),
             artifacts |-> Slice(n.artifacts, 0, MaxArtifacts),
             edits |-> Slice(e.edits, 0, MaxEditBlocks)]
        Staged(e) ==
            Returning(e, InlineStage(FileStage(
                           [regularContent |-> e.regularContent,
                            artifacts |-> <<>>])))
    IN  IF Falsy(msg)
        THEN [content |-> <<>>, artifacts |-> <<>>, edits |-> <<>>]
        ELSE Staged(EditStage(msg))

KeepPath == <<"src", "/", ".", "keep">>

\* what the server answers with: one file twice, two edits
TwiceResponse ==
    <<FileBlock(<<"py">>, BPy, <<"x">>), Prose(Pad),
      FileBlock(<<"py">>, BPy, <<"y">>)>>

EditsResponse ==
    <<EditBlock(AJs, <<Op(<<"x">>, <<"y">>)>>),
      EditBlock(KeepPath, <<Op(<<"#">>, <<"x">>)>>)>>

Responses == {TwiceResponse, EditsResponse}

\* the body of the response as it arrives, one part at a time
Chunks(parts) ==
    [k \in 1..Len(parts) |->
        IF k < Len(parts) THEN RenderPart(parts[k]) \o <<NL>>
        ELSE RenderPart(parts[k])]

UserMessage(id) ==
    [role |-> "user", id |-> id, content |-> <<"hi">>, isStreaming |-> FALSE,
     isError |-> FALSE, parsed |-> FALSE, artifacts |-> <<>>, edits |-> <<>>]

AssistantMessage(id) ==
    [role |-> "assistant", id |-> id, content |-> <<>>, isStreaming |-> TRUE,
     isError |-> FALSE, parsed |-> FALSE, artifacts |-> <<>>, edits |-> <<>>]

\* assistantMessage.id of the running call
AssistantId == messagesWithNew[Len(messagesWithNew)].id

\* prev.map(m => m.id === assistantMessage.id ? {...m, content, isStreaming: true} : m)
updateMessageContent(prev, id, text) ==
    [k \in 1..Len(prev) |->
        IF prev[k].id = id
        THEN [prev[k] EXCEPT !.content = text, !.isStreaming = TRUE]
        ELSE prev[k]]

\* the stop was pressed and the rejected promise has not been handled yet
AbortPending == signalAborted /\ sendPos # "idle"

\* sendMessage up to the await of fetch
sendMessage ==
    /\ ~isLoading
    /\ Len(messages) + 2 <= MaxMessages
    /\ \E r \in Responses :
          /\ response' = r
          /\ reader' = Chunks(r)
    /\ messages' = messages \o <<UserMessage(Len(messages) + 1),
                                 AssistantMessage(Len(messages) + 2)>>
    /\ messagesWithNew' = messages'
    /\ isLoading' = TRUE
    /\ abortControllerRef' = "controller"
    /\ signalAborted' = FALSE
    /\ capturedArtifacts' = currentArtifacts
    /\ sentArtifacts' = currentArtifacts
    /\ fullContent' = <<>>
    /\ sendPos' = "fetch"
    /\ UNCHANGED <<viewingEdit, parseLog>>
    /\ UNCHANGED <<patchVars, parseVars, sanitizeVars, targetVars, dedupVars,
                   projectVars>>

\* the response arrives: res.ok, res.body.getReader()
FetchResolved ==
    /\ sendPos = "fetch"
    /\ ~signalAborted
    /\ sendPos' = "read"
    /\ UNCHANGED <<messages, isLoading, abortControllerRef, viewingEdit,
                   messagesWithNew, capturedArtifacts, reader, fullContent,
                   signalAborted, response, parseLog, sentArtifacts>>
    /\ UNCHANGED <<patchVars, parseVars, sanitizeVars, targetVars, dedupVars,
                   projectVars>>

\* variant: the loop is left before the body has ended
StreamDoneAny(chunks) == TRUE

\* the done of reader.read()
StreamDone(chunks) == chunks = <<>>

\* one turn of the while loop: a chunk is read and added to fullContent, and
\* the message on screen follows
ReadChunk ==
    /\ sendPos = "read"
    /\ ~signalAborted
    /\ reader # <<>>
    /\ ~StreamDone(reader)
    /\ fullContent' = fullContent \o Head(reader)
    /\ reader' = Tail(reader)
    /\ messages' = updateMessageContent(messages, AssistantId, fullContent')
    /\ UNCHANGED <<isLoading, abortControllerRef, viewingEdit, sendPos,
                   messagesWithNew, capturedArtifacts, signalAborted, response,
                   parseLog, sentArtifacts>>
    /\ UNCHANGED <<patchVars, parseVars, sanitizeVars, targetVars, dedupVars,
                   projectVars>>

\* the artifact as the project keeps it
AsFile(artifact) == [path |-> artifact.path, content |-> artifact.content]

AsFiles(xs) == [k \in 1..Len(xs) |-> AsFile(xs[k])]

\* parsedResponse.artifacts as the message keeps them
Flagged(xs, added) ==
    [k \in 1..Len(xs) |->
        [path |-> xs[k].path, content |-> xs[k].content,
         addedToProject |-> added]]

\* parsedResponse.edits as the message keeps them
StoredEdits(xs, id) ==
    [k \in 1..Len(xs) |->
        [id |-> <<id, k>>, path |-> xs[k].path,
         operations |-> xs[k].operations, applied |-> xs[k].applied,
         targetFile |-> <<>>]]

\* the artifacts of the response that are no duplicates of the artifacts the
\* call holds
enhancedArtifacts(parsedResponse) ==
    SelectSeq(parsedResponse.artifacts,
              LAMBDA a : ~isDuplicateOf(capturedArtifacts, a))

\* messagesWithNew.map(m => m.id === assistantMessage.id ? {...} : m)
finalMessages(parsedResponse, kept) ==
    [k \in 1..Len(messagesWithNew) |->
        IF messagesWithNew[k].id = AssistantId
        THEN [messagesWithNew[k] EXCEPT
                 !.content = parsedResponse.content,
                 !.parsed = TRUE,
                 !.isStreaming = FALSE,
                 !.artifacts = kept,
                 !.edits = StoredEdits(parsedResponse.edits, AssistantId)]
        ELSE messagesWithNew[k]]

\* the body has ended: the rest of the try block and the finally block
StreamCompleted ==
    /\ sendPos = "read"
    /\ ~signalAborted
    /\ StreamDone(reader)
    /\ \E parsedResponse \in {parseLLMResponse(fullContent)} :
        \E enhanced \in {enhancedArtifacts(parsedResponse)} :
          /\ currentArtifacts' =
                 IF enhanced # <<>>
                 THEN handleArtifactUpdate(capturedArtifacts
                                               \o AsFiles(enhanced))
                 ELSE currentArtifacts
          /\ messages' =
                 finalMessages(parsedResponse,
                               IF enhanced # <<>> THEN Flagged(enhanced, TRUE)
                               ELSE Flagged(parsedResponse.artifacts, FALSE))
    /\ parseLog' = Append(parseLog, [id |-> AssistantId,
                                     text |-> fullContent,
                                     whole |-> Render(response),
                                     pending |-> reader])
    /\ isLoading' = FALSE
    /\ abortControllerRef' = "null"
    /\ sendPos' = "idle"
    /\ UNCHANGED <<viewingEdit, messagesWithNew, capturedArtifacts, reader,
                   fullContent, signalAborted, response, sentArtifacts>>
    /\ UNCHANGED <<patchVars, parseVars, sanitizeVars, targetVars, dedupVars,
                   clock>>

\* stopGeneration
stopGeneration ==
    /\ abortControllerRef = "controller"
    /\ signalAborted' = TRUE
    /\ abortControllerRef' = "null"
    /\ UNCHANGED <<messages, isLoading, viewingEdit, sendPos, messagesWithNew,
                   capturedArtifacts, reader, fullContent, response, parseLog,
                   sentArtifacts>>
    /\ UNCHANGED <<patchVars, parseVars, sanitizeVars, targetVars, dedupVars,
                   projectVars>>

\* variant: the list is left as it is
WithoutLastKept(prev) == prev

\* prev.slice(0, -1)
WithoutLast(prev) == SubSeq(prev, 1, Len(prev) - 1)

\* the pending fetch or read rejects with an AbortError: the catch block
\* and the finally block
AbortCaught ==
    /\ sendPos \in {"fetch", "read"}
    /\ signalAborted
    /\ messages' = WithoutLast(messages)
    /\ isLoading' = FALSE
    /\ abortControllerRef' = "null"
    /\ sendPos' = "idle"
    /\ UNCHANGED <<viewingEdit, messagesWithNew, capturedArtifacts, reader,
                   fullContent, signalAborted, response, parseLog,
                   sentArtifacts>>
    /\ UNCHANGED <<patchVars, parseVars, sanitizeVars, targetVars, dedupVars,
                   projectVars>>

\* the request fails for another reason: the rest of the catch block and
\* the finally block
ErrorCaught ==
    /\ sendPos \in {"fetch", "read"}
    /\ ~signalAborted
    /\ messages' =
           [k \in 1..Len(messages) |->
               IF messages[k].id = AssistantId
               THEN [messages[k] EXCEPT !.content = <<"Error">>,
                                        !.isError = TRUE,
                                        !.isStreaming = FALSE]
               ELSE messages[k]]
    /\ isLoading' = FALSE
    /\ abortControllerRef' = "null"
    /\ sendPos' = "idle"
    /\ UNCHANGED <<viewingEdit, messagesWithNew, capturedArtifacts, reader,
                   fullContent, signalAborted, response, parseLog,
                   sentArtifacts>>
    /\ UNCHANGED <<patchVars, parseVars, sanitizeVars, targetVars, dedupVars,
                   projectVars>>

\* handleViewEdit: one of the first three edits a message shows, while the
\* page of the viewer is not over the messages
handleViewEdit ==
    /\ ~AbortPending
    /\ viewingEdit = NoEdit
    /\ \E k \in 1..Len(messages) :
        \E e \in 1..Min(3, Len(messages[k].edits)) :
            viewingEdit' = messages[k].edits[e]
    /\ UNCHANGED <<messages, isLoading, abortControllerRef, sendPos,
                   messagesWithNew, capturedArtifacts, reader, fullContent,
                   signalAborted, response, parseLog, sentArtifacts>>
    /\ UNCHANGED <<patchVars, parseVars, sanitizeVars, targetVars, dedupVars,
                   projectVars>>

\* onClose of the diff viewer
CloseViewer ==
    /\ ~AbortPending
    /\ viewingEdit # NoEdit
    /\ viewingEdit' = NoEdit
    /\ UNCHANGED <<messages, isLoading, abortControllerRef, sendPos,
                   messagesWithNew, capturedArtifacts, reader, fullContent,
                   signalAborted, response, parseLog, sentArtifacts>>
    /\ UNCHANGED <<patchVars, parseVars, sanitizeVars, targetVars, dedupVars,
                   projectVars>>

ArtifactPaths == [k \in 1..Len(currentArtifacts) |-> currentArtifacts[k].path]

\* art.path.toLowerCase().includes(edit.path.toLowerCase()) || the reverse
matchingFiles(edit) ==
    {k \in 1..Len(currentArtifacts) :
        \/ Includes(LowerCase(currentArtifacts[k].path), LowerCase(edit.path))
        \/ Includes(LowerCase(edit.path), LowerCase(currentArtifacts[k].path))}

\* the indices targetFile can end as, 0 for none: the file of
\* findTargetFileForEdit, else the only matching file, else the answer to the
\* prompt (a matching file, or nothing when it is cancelled)
TargetFiles(edit) ==
    LET Chosen(found, matching) ==
            IF found # 0 THEN {found}
            ELSE IF Cardinality(matching) = 1 THEN matching
            ELSE matching \cup {0}
    IN  Chosen(findTargetFileForEdit(ArtifactPaths, edit.path),
               matchingFiles(edit))

\* e.id === edit.id ? {...e, applied: true, targetFile: targetFile.path} : e,
\* in every message
MarkApplied(prev, id, path) ==
    [k \in 1..Len(prev) |->
        [prev[k] EXCEPT !.edits =
            [e \in 1..Len(prev[k].edits) |->
                IF prev[k].edits[e].id = id
                THEN [prev[k].edits[e] EXCEPT !.applied = TRUE,
                                              !.targetFile = path]
                ELSE prev[k].edits[e]]]]

\* handleApplyEditFromViewer(viewingEdit), from the Apply button of the viewer
handleApplyEditFromViewer ==
    /\ ~AbortPending
    /\ viewingEdit # NoEdit
    /\ \E t \in TargetFiles(viewingEdit) :
        \E patch \in {IF t = 0 THEN [appliedCount |-> 0]
                      ELSE applySearchReplace(currentArtifacts[t].content,
                                              viewingEdit.operations)} :
            IF patch.appliedCount = 0
            THEN UNCHANGED <<currentArtifacts, messages, viewingEdit>>
            ELSE /\ currentArtifacts' =
                        handleArtifactUpdate(
                            WithContent(currentArtifacts[t].path, patch.result))
                 /\ messages' = MarkApplied(messages, viewingEdit.id,
                                            currentArtifacts[t].path)
                 /\ viewingEdit' = NoEdit
    /\ UNCHANGED <<isLoading, abortControllerRef, sendPos, messagesWithNew,
                   capturedArtifacts, reader, fullContent, signalAborted,
                   response, parseLog, sentArtifacts>>
    /\ UNCHANGED <<patchVars, parseVars, sanitizeVars, targetVars, dedupVars,
                   clock>>

\* the file operations of the user while the conversation goes on, each at
\* a later time than the one before
UserFrame ==
    /\ ~AbortPending
    /\ clock < MaxClock
    /\ clock' = clock + 1
    /\ UNCHANGED <<patchVars, parseVars, sanitizeVars, targetVars, dedupVars,
                   chatVars>>

\* handleSave of a file edited to 'y'
UserSave ==
    /\ \E k \in 1..Len(currentArtifacts) :
          currentArtifacts' = WithContent(currentArtifacts[k].path, <<"y">>)
    /\ UserFrame

\* handleDelete
UserDelete ==
    /\ \E k \in 1..Len(currentArtifacts) :
          currentArtifacts' =
              SelectSeq(currentArtifacts,
                        LAMBDA a : a.path # currentArtifacts[k].path)
    /\ UserFrame

\* handleCreateNewFolder at the root, with the name src
UserCreateFolder ==
    /\ Len(currentArtifacts) < MaxChatFiles
    /\ currentArtifacts' =
           Append(currentArtifacts,
                  [path |-> sanitizedName(<<"src">>) \o <<"/", ".", "keep">>,
                   content |-> <<"#">>])
    /\ UserFrame

InitChat ==
    /\ PatchIdle
    /\ ParseIdle
    /\ SanitizeIdle
    /\ TargetIdle
    /\ DedupIdle
    /\ ChatIdle
    /\ currentArtifacts \in {<<>>, <<[path |-> AJs, content |-> <<"x">>]>>}
    /\ clock = 0

NextChat ==
    \/ sendMessage
    \/ FetchResolved
    \/ ReadChunk
    \/ StreamCompleted
    \/ stopGeneration
    \/ AbortCaught
    \/ ErrorCaught
    \/ handleViewEdit
    \/ CloseViewer
    \/ handleApplyEditFromViewer
    \/ UserSave
    \/ UserDelete
    \/ UserCreateFolder

SpecChat == InitChat /\ [][NextChat]_vars

\* the continuation of a rejected promise runs once it is queued
SpecChatFair == SpecChat /\ WF_vars(AbortCaught)

(***************************************************************************)
(* Claims about the conversation                                           *)
(***************************************************************************)
\* the messages the user sent
Sent == {k \in 1..Len(messages) : messages[k].role = "user"}

\* every call of the parser was given the whole text of a response whose
\* body had ended
OnlyWholeText ==
    \A a \in 1..Len(parseLog) :
        /\ parseLog[a].text = parseLog[a].whole
        /\ parseLog[a].pending = <<>>

\* C21 (as stated): for each message sent the parser is called exactly once,
\* after the stream has ended and on the whole text.
C21_OncePerSentMessage ==
    /\ sendPos = "idle" => Len(parseLog) = Cardinality(Sent)
    /\ OnlyWholeText

\* C21 (amended): the parser is called at most once for a message, exactly
\* once for a response whose stream ended, never while the chunks arrive and
\* always on the whole text; a response that is stopped or fails is not
\* parsed.
C21_OncePerCompletedResponse ==
    /\ \A a, b \in 1..Len(parseLog) :
          parseLog[a].id = parseLog[b].id => a = b
    /\ OnlyWholeText
    /\ sendPos # "idle" =>
          \A a \in 1..Len(parseLog) : parseLog[a].id # AssistantId
    /\ \A k \in 1..Len(messages) :
          messages[k].parsed <=>
              \E a \in 1..Len(parseLog) : parseLog[a].id = messages[k].id

\* a response of three chunks was read to its end and parsed
C21_Witness ==
    /\ sendPos = "idle"
    /\ Len(response) = 3
    /\ Len(parseLog) = 1
    /\ parseLog[1].text = Render(response)
    /\ messages[Len(messages)].parsed

\* C22 (as stated): applying an edit leaves the artifacts as they are when
\* no file is resolved or no operation applies; otherwise the content of the
\* one file resolved becomes the result of the patch, and every other
\* artifact, the number and the order of the artifacts stay.
C22_AtMostOneFile ==
    [][(currentArtifacts' # currentArtifacts /\ clock' = clock
            /\ sendPos' = sendPos /\ viewingEdit # NoEdit)
        => \E t \in TargetFiles(viewingEdit) \ {0} :
              LET patch == applySearchReplace(currentArtifacts[t].content,
                                              viewingEdit.operations)
              IN  /\ patch.appliedCount > 0
                  /\ Len(currentArtifacts') = Len(currentArtifacts)
                  /\ \A k \in 1..Len(currentArtifacts) :
                        currentArtifacts'[k] =
                            IF k = t
                            THEN [currentArtifacts[k] EXCEPT
                                     !.content = patch.result]
                            ELSE currentArtifacts[k]
      ]_vars

\* C23 (as stated): an EditGroup of a parsed message stays in the message
\* with its path and its operations, and once flagged applied stays flagged.
C23_EditGroupKept ==
    [][\A k \in 1..Len(messages) :
          \A e \in 1..Len(messages[k].edits) :
              /\ k <= Len(messages')
              /\ e <= Len(messages'[k].edits)
              /\ messages'[k].edits[e].id = messages[k].edits[e].id
              /\ messages'[k].edits[e].path = messages[k].edits[e].path
              /\ messages'[k].edits[e].operations =
                     messages[k].edits[e].operations
              /\ messages[k].edits[e].applied =>
                     messages'[k].edits[e].applied
      ]_vars

\* the artifacts of the parsed text that are no duplicates of these
NotIn(existing, text) ==
    SelectSeq(parseLLMResponse(text).artifacts,
              LAMBDA a : ~isDuplicateOf(existing, a))

\* C27 (as stated): the update made when the response completes is computed
\* from the artifacts of the conversation as they are then, so that what the
\* user created, saved, deleted or patched while it streamed is kept.
C27_NoLostUpdate ==
    [][Len(parseLog') > Len(parseLog)
        => currentArtifacts' =
               IF NotIn(currentArtifacts, fullContent) # <<>>
               THEN handleArtifactUpdate(
                        currentArtifacts
                            \o AsFiles(NotIn(currentArtifacts, fullContent)))
               ELSE currentArtifacts
      ]_vars

\* the call has ended, the controller is cleared, the assistant message that
\* was streaming is gone and the message of the user is the last one
Discarded ==
    /\ isLoading = FALSE
    /\ abortControllerRef = "null"
    /\ messages # <<>>
    /\ messages[Len(messages)].role = "user"
    /\ \A k \in 1..Len(messages) : ~messages[k].isStreaming

NewTo(existing, text) ==
    SelectSeq(parseLLMResponse(text).artifacts,
              LAMBDA a : \A k \in 1..Len(existing) :
                             /\ existing[k].path # a.path
                             /\ existing[k].content # a.content)

\* C29 (as stated): when a response completes and the project is as it was
\* at the send, the artifacts of the project stay as they are and where they
\* are, and the parsed artifacts whose path and content no artifact of the
\* project has are appended, flagged addedToProject.
C29_AppendOnly ==
    [][(Len(parseLog') > Len(parseLog)
            /\ capturedArtifacts = currentArtifacts)
        => /\ currentArtifacts' =
                  currentArtifacts
                      \o AsFiles(NewTo(currentArtifacts, fullContent))
           /\ NewTo(currentArtifacts, fullContent) # <<>> =>
                  messages'[Len(messages')].artifacts =
                      Flagged(NewTo(currentArtifacts, fullContent), TRUE)
      ]_vars
====
